---- MODULE Spec2Model ----
(***************************************************************************)
(* Verification model of robodiff: the diff engine (main.go), the          *)
(* order-preserving report parser (backend/diff/robot.go), the fast        *)
(* statistics reader and the run store (backend/store/store.go).           *)
(*                                                                         *)
(* Strings whose content matters (item names) are sequences of one-letter  *)
(* strings, so that splitting, joining, prefix tests, case folding and     *)
(* byte-wise sorting are computed the way the Go code computes them.       *)
(***************************************************************************)
EXTENDS Integers, Sequences, FiniteSets, TLC

VARIABLES
    \* ---- diff engine (main.go) ----
    stats,          \* DiffResults.stats: normalized long name -> vector of ItemStatus
    columnNames,    \* DiffResults.columnNames
    added,          \* history: the reports handed to AddParsedOutput, in order
    json,           \* the JSONReport.Suites built by the reporter (empty before)
    dpc,            \* position of main(): "adding" | "reported"
    \* ---- report parser (backend/diff/robot.go) ----
    doc,            \* the <test> element handed to the decoder, as an element tree
    parsed,         \* the Test value produced by Test.UnmarshalXML
    shown,          \* the keyword names buildTestBodyKeywords hands to the UI
    ppc,            \* "idle" | "ready" | "parsed" | "shown"
    \* ---- fast statistics reader (backend/store/store.go) ----
    sdoc,           \* the report file: [suite |-> tree, tail |-> tokens after the suite]
    fast,           \* result of readRobotStatisticsFast
    counted,        \* result of CountTests on the parsed tree
    spc,            \* "idle" | "ready" | "fast" | "done"
    \* ---- run store (backend/store/store.go) ----
    fs,             \* the runs directory: report file -> [exists, mtime, aux]
    heap,           \* the runEntry objects ever allocated, per id, by identity
    runs,           \* RunStore.runs: id -> identity of its runEntry (0: no key)
    scan,           \* per caller of scanOnce: position and locals of the call
    fillInProgress, \* RunStore.fillInProgress
    fill,           \* the background fill goroutine: position and jobs left
    worker,         \* the hydration workers: position and locals of hydrateRun
    obs,            \* what the last reader saw under the lock (history)
    published,      \* the map the last finished scan swapped in (history)
    changed,        \* files changed since the scan behind s.runs saw them (history)
    nScans,         \* number of scanOnce calls started so far
    nChanges,       \* number of changes made to the directory from outside
    renamed,        \* the last RenameRun that moved a run: [old, new] (history)
    \* ---- DeleteRuns and RenameRun on real paths (backend/store/store.go) ----
    pathFiles,      \* the regular files on disk, by real path
    pathRuns,       \* s.runs: the ids in the catalog (abs is fixed per id)
    pathOut,        \* what the last DeleteRuns / RenameRun call returned
    pathOps,        \* number of calls made so far
    \* ---- GetRuns and GetTestDetails with a deadline ----
    getOut,         \* what the last GetRuns / GetTestDetails call returned
    nGets,          \* number of calls made so far
    \* ---- test lookup of GetTestDetails ----
    findIn,         \* [suite |-> root suite of the run, name |-> testName]
    findOut,        \* the test returned, or the error
    fpc,            \* "idle" | "ready" | "done"
    \* ---- attributes of the status and msg elements (backend/diff/robot.go) ----
    attrIn,         \* the start element: [elem, by, attrs], attrs in document order
    attrOut,        \* the fields read from the attributes
    apc,            \* "idle" | "asked" | "answered"
    \* ---- the directory walk of scanOnce (backend/store/store.go) ----
    walkFs,         \* the tree under the root: [reports, link]
    walkStack,      \* the calls of scanDir still to run: [path, depth]
    walkFound,      \* the walk paths of the folders whose report was cataloged
    walkEntered,    \* the walk paths os.ReadDir was called on (history)
    wpc,            \* "idle" | "walk" | "done"
    \* ---- ParseRobotXMLBytesContext and its goroutine (backend/diff/parse.go) ----
    goData,         \* the bytes handed in: the tree they decode to, or Malformed
    goCaller,       \* "idle" | "entry" | "select" | "returned"
    goDecoder,      \* the goroutine: "idle" | "none" | "decoding" | "sending" | "done"
    resultCh,       \* the values buffered in resultCh
    errCh,          \* the values buffered in errCh
    ctxDone,        \* the deadline of ctx has expired
    goRet           \* what the call returned: [robot, err], err "" for nil

diffVars == <<stats, columnNames, added, json, dpc>>
parseVars == <<doc, parsed, shown, ppc>>
statVars == <<sdoc, fast, counted, spc>>
storeVars == <<fs, heap, runs, scan, fillInProgress, fill, worker, obs,
               published, changed, nScans, nChanges>>
pathVars == <<pathFiles, pathRuns, pathOut, pathOps>>
getVars == <<getOut, nGets>>
findVars == <<findIn, findOut, fpc>>
renameVars == <<renamed>>
attrVars == <<attrIn, attrOut, apc>>
walkVars == <<walkFs, walkStack, walkFound, walkEntered, wpc>>
goVars == <<goData, goCaller, goDecoder, resultCh, errCh, ctxDone, goRet>>
vars == <<diffVars, parseVars, statVars, storeVars, pathVars, getVars, findVars, renameVars, attrVars, walkVars, goVars>>

\* the state of the other components, which a component's steps leave alone
nonDiffVars == <<parseVars, statVars, storeVars, pathVars, getVars, findVars, renameVars, attrVars, walkVars, goVars>>
nonParseVars == <<diffVars, statVars, storeVars, pathVars, getVars, findVars, renameVars, attrVars, walkVars, goVars>>
nonStatVars == <<diffVars, parseVars, storeVars, pathVars, getVars, findVars, renameVars, attrVars, walkVars, goVars>>
nonStoreVars == <<diffVars, parseVars, statVars, pathVars, getVars, findVars, renameVars, attrVars, walkVars, goVars>>
nonPathVars == <<diffVars, parseVars, statVars, storeVars, getVars, findVars, renameVars, attrVars, walkVars, goVars>>
nonFindVars == <<diffVars, parseVars, statVars, storeVars, pathVars, getVars, renameVars, attrVars, walkVars, goVars>>
nonAttrVars == <<diffVars, parseVars, statVars, storeVars, pathVars, getVars, findVars, renameVars, walkVars, goVars>>
nonWalkVars == <<diffVars, parseVars, statVars, storeVars, pathVars, getVars, findVars, renameVars, attrVars, goVars>>
nonGoVars == <<diffVars, parseVars, statVars, storeVars, pathVars, getVars, findVars, renameVars, attrVars, walkVars>>

\* the nil pointer / absent value
Nil == [nil |-> TRUE]

\* all sequences over S of length at most n
SeqsUpTo(S, n) == UNION { [1..k -> S] : k \in 0..n }

(***************************************************************************)
(* Generic string helpers (package strings / sort of the Go library).      *)
(***************************************************************************)
Dot == "."

\* byte value order of the letters used in names (ASCII: '.' < 'A' < 'B' < 'a' < 'b' < 'c')
Ord(ch) ==
    CASE ch = "." -> 46
      [] ch = "A" -> 65
      [] ch = "B" -> 66
      [] ch = "a" -> 97
      [] ch = "b" -> 98
      [] ch = "c" -> 99
      [] OTHER    -> 127

\* strings.ToLower on one letter
LowerCh(ch) ==
    CASE ch = "A" -> "a"
      [] ch = "B" -> "b"
      [] ch = "X" -> "x"
      [] ch = "M" -> "m"
      [] ch = "L" -> "l"
      [] OTHER    -> ch

\* strings.ToLower
ToLower(s) == [i \in 1..Len(s) |-> LowerCh(s[i])]

\* strings.HasPrefix
HasPrefix(s, p) == Len(p) <= Len(s) /\ SubSeq(s, 1, Len(p)) = p

\* strings.TrimPrefix
TrimPrefix(s, p) == IF HasPrefix(s, p) THEN SubSeq(s, Len(p) + 1, Len(s)) ELSE s

\* strings.Contains(s, ".")
ContainsDot(s) == \E i \in 1..Len(s) : s[i] = Dot

\* strings.LastIndex(s, "."), 1-based; 0 when there is none (Go: -1)
LastIndexDot(s) ==
    IF ContainsDot(s)
    THEN CHOOSE i \in 1..Len(s) : s[i] = Dot /\ \A j \in (i+1)..Len(s) : s[j] # Dot
    ELSE 0

\* strings.Split(s, "."): the pieces between the separators, empty pieces kept
RECURSIVE SplitFrom(_, _, _)
SplitFrom(s, i, cur) ==
    IF i > Len(s) THEN <<cur>>
    ELSE IF s[i] = Dot THEN <<cur>> \o SplitFrom(s, i + 1, <<>>)
    ELSE SplitFrom(s, i + 1, Append(cur, s[i]))

Split(s) == SplitFrom(s, 1, <<>>)

\* strings.Join(parts, ".")
RECURSIVE Join(_)
Join(parts) ==
    IF Len(parts) = 0 THEN <<>>
    ELSE IF Len(parts) = 1 THEN parts[1]
    ELSE parts[1] \o <<Dot>> \o Join(Tail(parts))

\* byte-wise string comparison used by sort.Strings
RECURSIVE LessStr(_, _)
LessStr(a, b) ==
    IF Len(b) = 0 THEN FALSE
    ELSE IF Len(a) = 0 THEN TRUE
    ELSE IF Ord(a[1]) < Ord(b[1]) THEN TRUE
    ELSE IF Ord(a[1]) > Ord(b[1]) THEN FALSE
    ELSE LessStr(Tail(a), Tail(b))

\* sort.Strings over the keys of a map (keys are distinct)
RECURSIVE SortStrings(_)
SortStrings(S) ==
    IF S = {} THEN <<>>
    ELSE LET m == CHOOSE x \in S : \A y \in S \ {x} : LessStr(x, y)
         IN  <<m>> \o SortStrings(S \ {m})


(***************************************************************************)
(* Diff engine inputs: parsed report trees (Robot / Suite / Test).         *)
(* A Suite is [Name, Suites, Tests, Status], a Test is [Name, Status];     *)
(* Status is the status attribute text of the <status> element.            *)
(***************************************************************************)
MaxColumns == 3

StatusTexts == {"PASS", "FAIL", "SKIP"}

\* name skeletons of the report trees that are compared: a plain suite, a
\* suite with two tests whose names differ only in case, a nested suite
\* under a root spelled in upper case, a test name holding a separator, a
\* test named like its sibling suite, and a suite without tests
MkSuite(name, suites, tests) == [Name |-> name, Suites |-> suites, Tests |-> tests]

Layouts ==
    { MkSuite(<<"a">>, <<>>, << <<"b">> >>),
      MkSuite(<<"a">>, <<>>, << <<"b">>, <<"B">> >>),
      MkSuite(<<"A">>, << MkSuite(<<"c">>, <<>>, << <<"b">> >>) >>, <<>>),
      MkSuite(<<"a">>, <<>>, << <<"b", ".", "c">> >>),
      MkSuite(<<"a">>, << MkSuite(<<"b">>, <<>>, << <<"c">> >>) >>, << <<"b">> >>),
      MkSuite(<<"a">>, << MkSuite(<<"c">>, <<>>, <<>>) >>, << <<"b">> >>) }

RECURSIVE WithStatus(_, _)
WithStatus(l, st) ==
    [Name   |-> l.Name,
     Suites |-> [i \in 1..Len(l.Suites) |-> WithStatus(l.Suites[i], st)],
     Tests  |-> [i \in 1..Len(l.Tests) |-> [Name |-> l.Tests[i], Status |-> st]],
     Status |-> st]

\* the Robot values handed to AddParsedOutput (Robot.Suite is the root suite)
Reports == { [Suite |-> WithStatus(l, st)] : l \in Layouts, st \in StatusTexts }

(***************************************************************************)
(* DiffResults (main.go)                                                   *)
(***************************************************************************)
\* strings.ToUpper / strings.ToLower on a status text
StatusUpper(st) ==
    CASE st \in {"PASS", "pass"} -> "PASS"
      [] st \in {"FAIL", "fail"} -> "FAIL"
      [] st \in {"SKIP", "skip"} -> "SKIP"
      [] OTHER -> st

StatusLower(st) ==
    CASE st \in {"PASS", "pass"} -> "pass"
      [] st \in {"FAIL", "fail"} -> "fail"
      [] st \in {"SKIP", "skip"} -> "skip"
      [] OTHER -> st

\* &ItemStatus{Name: "N/A", Status: "not_available"}
NotAvailable == [Name |-> "N/A", Status |-> "not_available"]

\* DiffResults.addToStats: st is dr.stats, ncols is len(dr.columnNames)
addToStats(st, ncols, name, status) ==
    LET normalizedName == ToLower(name)
        statuses == IF normalizedName \in DOMAIN st
                    THEN st[normalizedName]
                    ELSE [i \in 1..ncols |-> NotAvailable]
        item == [Name |-> StatusUpper(status), Status |-> StatusLower(status)]
    IN  [n \in (DOMAIN st) \cup {normalizedName} |->
            IF n = normalizedName THEN Append(statuses, item) ELSE st[n]]

\* DiffResults.addSuite: the addToStats calls it makes, in call order
\* (the suite itself, then its sub-suites depth-first, then its tests)
RECURSIVE addSuite(_, _)
RECURSIVE addSuites(_, _)
addSuite(suite, parent) ==
    LET longname == IF parent # <<>> THEN parent \o <<Dot>> \o suite.Name ELSE suite.Name
    IN  << [name |-> longname, status |-> suite.Status] >>
        \o addSuites(suite.Suites, longname)
        \o [i \in 1..Len(suite.Tests) |->
              [name |-> longname \o <<Dot>> \o suite.Tests[i].Name,
               status |-> suite.Tests[i].Status]]

addSuites(suites, longname) ==
    IF Len(suites) = 0 THEN <<>>
    ELSE addSuite(Head(suites), longname) \o addSuites(Tail(suites), longname)

RECURSIVE ApplyCalls(_, _, _)
ApplyCalls(st, ncols, calls) ==
    IF Len(calls) = 0 THEN st
    ELSE ApplyCalls(addToStats(st, ncols, Head(calls).name, Head(calls).status),
                    ncols, Tail(calls))

\* the loop "for len(statuses) < len(dr.columnNames) { append N/A }"
RECURSIVE Backfill(_, _)
Backfill(statuses, n) ==
    IF Len(statuses) < n THEN Backfill(Append(statuses, NotAvailable), n) ELSE statuses

\* DiffResults.AddParsedOutput: the new stats map
AddParsedOutputStats(st, cols, robot) ==
    LET walked == ApplyCalls(st, Len(cols), addSuite(robot.Suite, <<>>))
    IN  [n \in DOMAIN walked |-> Backfill(walked[n], Len(cols) + 1)]

\* RowStatus.Status: one pass over the vector setting three flags
RECURSIVE StatusFlags(_, _)
StatusFlags(statuses, f) ==
    IF Len(statuses) = 0 THEN f
    ELSE LET stat == Head(statuses)
             g == IF stat.Name = "PASS" THEN [f EXCEPT !.passed = TRUE]
                  ELSE IF stat.Name = "FAIL" THEN [f EXCEPT !.failed = TRUE]
                  ELSE IF stat.Name = "N/A" THEN [f EXCEPT !.missing = TRUE]
                  ELSE f
         IN  StatusFlags(Tail(statuses), g)

\* a Status that tests the placeholder flag before the conflict
StatusMissingFirst(statuses) ==
    LET f == StatusFlags(statuses, [passed |-> FALSE, failed |-> FALSE, missing |-> FALSE])
    IN  IF f.missing THEN "missing"
        ELSE IF f.passed /\ f.failed THEN "diff"
        ELSE IF f.passed THEN "all_passed"
        ELSE "all_failed"

Status(statuses) ==
    LET f == StatusFlags(statuses, [passed |-> FALSE, failed |-> FALSE, missing |-> FALSE])
    IN  IF f.passed /\ f.failed THEN "diff"
        ELSE IF f.missing THEN "missing"
        ELSE IF f.passed THEN "all_passed"
        ELSE "all_failed"

\* the hasChildren map of Rows: every proper dot-prefix of a known name
HasChildrenSet(names) ==
    UNION { { Join(SubSeq(Split(names[k]), 1, i)) : i \in 1..(Len(Split(names[k])) - 1) }
            : k \in 1..Len(names) }

\* an inner loop that accepts a leaf at any depth below name
HasLeafDescendants(name, names, hasChildren) ==
    \E k \in 1..Len(names) :
        /\ HasPrefix(names[k], name \o <<Dot>>)
        /\ names[k] \notin hasChildren

\* the inner loop of Rows: some direct child of name is a leaf
HasLeafChildren(name, names, hasChildren) ==
    \E k \in 1..Len(names) :
        /\ HasPrefix(names[k], name \o <<Dot>>)
        /\ ~ContainsDot(TrimPrefix(names[k], name \o <<Dot>>))
        /\ names[k] \notin hasChildren

RECURSIVE RowsLoop(_, _, _, _)
RowsLoop(st, names, hasChildren, k) ==
    IF k > Len(names) THEN <<>>
    ELSE LET name == names[k]
             keep == IF name \notin hasChildren THEN TRUE
                     ELSE HasLeafChildren(name, names, hasChildren)
         IN  (IF keep THEN << [Name |-> name, statuses |-> st[name]] >> ELSE <<>>)
             \o RowsLoop(st, names, hasChildren, k + 1)

\* DiffResults.Rows
Rows(st) ==
    LET names == SortStrings(DOMAIN st)
    IN  RowsLoop(st, names, HasChildrenSet(names), 1)

(***************************************************************************)
(* DiffReporter.BuildJSONData (the reporter of the server) and             *)
(* DiffReporter.buildJSONData (the command line tool) are the same         *)
(* algorithm; the result is the Suites list of the JSONReport.             *)
(***************************************************************************)
\* suiteNames: rows that are a dot-prefix parent of another row
SuiteNames(rows) ==
    { rows[i].Name : i \in { i \in 1..Len(rows) :
        \E j \in 1..Len(rows) :
            rows[j].Name # rows[i].Name /\ HasPrefix(rows[j].Name, rows[i].Name \o <<Dot>>) } }

TestResults(statuses) ==
    [i \in 1..Len(statuses) |->
        IF statuses[i].Name = "N/A" THEN "MISSING" ELSE statuses[i].Name]

\* the main loop: acc is [order |-> suiteOrder, map |-> suiteMap]
RECURSIVE JSONLoop(_, _, _, _)
JSONLoop(rows, suiteNames, k, acc) ==
    IF k > Len(rows) THEN acc
    ELSE LET row == rows[k]
             lastDot == LastIndexDot(row.Name)
         IN  IF row.Name \in suiteNames \/ lastDot = 0
             THEN JSONLoop(rows, suiteNames, k + 1, acc)
             ELSE LET suiteName == SubSeq(row.Name, 1, lastDot - 1)
                      testName == SubSeq(row.Name, lastDot + 1, Len(row.Name))
                      exists == suiteName \in DOMAIN acc.map
                      order == IF exists THEN acc.order ELSE Append(acc.order, suiteName)
                      old == IF exists THEN acc.map[suiteName] ELSE <<>>
                      test == [name |-> testName, results |-> TestResults(row.statuses)]
                      map == [n \in (DOMAIN acc.map) \cup {suiteName} |->
                                 IF n = suiteName THEN Append(old, test) ELSE acc.map[n]]
                  IN  JSONLoop(rows, suiteNames, k + 1, [order |-> order, map |-> map])

\* SelectSeq(order, has tests), written as the final loop of the function
RECURSIVE JSONSuites(_, _)
JSONSuites(order, map) ==
    IF Len(order) = 0 THEN <<>>
    ELSE (IF Len(map[Head(order)]) > 0
          THEN << [name |-> Head(order), tests |-> map[Head(order)]] >>
          ELSE <<>>)
         \o JSONSuites(Tail(order), map)

BuildJSONData(st) ==
    LET rows == Rows(st)
        acc == JSONLoop(rows, SuiteNames(rows), 1, [order |-> <<>>, map |-> <<>>])
    IN  JSONSuites(acc.order, acc.map)

buildJSONData(st) == BuildJSONData(st)

(***************************************************************************)
(* The diff run as a state machine: main() adds the parsed outputs one by  *)
(* one and then lets the reporter build the JSON data.                     *)
(***************************************************************************)
ParseIdle == doc = Nil /\ parsed = Nil /\ shown = <<>> /\ ppc = "idle"

StatIdle == sdoc = Nil /\ fast = Nil /\ counted = Nil /\ spc = "idle"

PathIdle == pathFiles = {} /\ pathRuns = {} /\ pathOut = Nil /\ pathOps = 0

GetIdle == getOut = Nil /\ nGets = 0

RenameIdle == renamed = Nil

GoIdle == goData = Nil /\ goCaller = "idle" /\ goDecoder = "idle" /\ resultCh = <<>> /\ errCh = <<>> /\ ctxDone = FALSE /\ goRet = Nil

WalkIdle == walkFs = Nil /\ walkStack = <<>> /\ walkFound = {} /\ walkEntered = {} /\ wpc = "idle"

AttrIdle == attrIn = Nil /\ attrOut = Nil /\ apc = "idle"

FindIdle == findIn = Nil /\ findOut = Nil /\ fpc = "idle"

StoreIdle ==
    /\ fs = <<>> /\ heap = <<>> /\ runs = <<>> /\ scan = <<>>
    /\ fillInProgress = FALSE /\ fill = Nil /\ worker = <<>>
    /\ obs = Nil /\ published = Nil /\ changed = {}
    /\ nScans = 0 /\ nChanges = 0

InitDiff ==
    /\ PathIdle
    /\ GetIdle
    /\ FindIdle
    /\ RenameIdle
    /\ GoIdle
    /\ WalkIdle
    /\ AttrIdle
    /\ StoreIdle
    /\ ParseIdle
    /\ StatIdle
    /\ stats = <<>>
    /\ columnNames = <<>>
    /\ added = <<>>
    /\ json = <<>>
    /\ dpc = "adding"

AddParsedOutput(robot, column) ==
    /\ dpc = "adding"
    /\ Len(columnNames) < MaxColumns
    /\ stats' = AddParsedOutputStats(stats, columnNames, robot)
    /\ columnNames' = Append(columnNames, column)
    /\ added' = Append(added, robot)
    /\ UNCHANGED <<json, dpc>>
    /\ UNCHANGED nonDiffVars

Report ==
    /\ dpc = "adding"
    /\ json' = buildJSONData(stats)
    /\ dpc' = "reported"
    /\ UNCHANGED <<stats, columnNames, added>>
    /\ UNCHANGED nonDiffVars

NextDiff ==
    \/ \E robot \in Reports : AddParsedOutput(robot, Len(columnNames) + 1)
    \/ Report

SpecDiff == InitDiff /\ [][NextDiff]_vars


(***************************************************************************)
(* Properties of the diff engine.                                          *)
(***************************************************************************)
HasName(v, nm) == \E i \in 1..Len(v) : v[i].Name = nm
AllName(v, nm) == \A i \in 1..Len(v) : v[i].Name = nm
Conflict(v) == HasName(v, "PASS") /\ HasName(v, "FAIL")

\* the normalized long names of the items of one report
NamesIn(robot) ==
    LET calls == addSuite(robot.Suite, <<>>)
    IN  { ToLower(calls[i].name) : i \in 1..Len(calls) }

\* the outcomes (upper case) an item has in one report
OutcomesIn(robot, n) ==
    LET calls == addSuite(robot.Suite, <<>>)
    IN  { StatusUpper(calls[i].status) : i \in { j \in 1..Len(calls) : ToLower(calls[j].name) = n } }

\* C1: after N AddParsedOutput calls every item's status vector has length
\* exactly N, the number of columns added so far.
C1_VectorLength ==
    \A n \in DOMAIN stats : Len(stats[n]) = Len(columnNames)

\* C2: a vector holding both PASS and FAIL is `diff` whatever else it holds;
\* a vector holding an N/A placeholder and no PASS+FAIL conflict is `missing`.
C2_StatusPriority ==
    \A n \in DOMAIN stats :
        LET v == stats[n]
        IN  /\ Conflict(v) => Status(v) = "diff"
            /\ (HasName(v, "N/A") /\ ~Conflict(v)) => Status(v) = "missing"

C2_Witness ==
    /\ \E n \in DOMAIN stats :
          Conflict(stats[n]) /\ HasName(stats[n], "N/A") /\ Status(stats[n]) = "diff"
    /\ \E n \in DOMAIN stats :
          HasName(stats[n], "FAIL") /\ HasName(stats[n], "N/A")
          /\ ~HasName(stats[n], "PASS") /\ Status(stats[n]) = "missing"

\* C3: without conflict and without placeholder, the vector is `all_passed`
\* if and only if every entry is PASS, and `all_failed` otherwise.
C3_AllPassedIffEveryPass ==
    \A n \in DOMAIN stats :
        LET v == stats[n]
        IN  (~Conflict(v) /\ ~HasName(v, "N/A")) =>
                /\ Status(v) = "all_passed" <=> AllName(v, "PASS")
                /\ ~AllName(v, "PASS") => Status(v) = "all_failed"

\* C4: after reports R1..RN, entry i of an item's vector is the N/A
\* placeholder iff the item does not occur in Ri and otherwise carries the
\* item's outcome in Ri; an item present in columns 1 and 2 and absent from
\* column 3 has row status `missing`.
C4_EntryPerColumn ==
    /\ \A n \in DOMAIN stats : \A i \in 1..Len(added) :
          /\ i <= Len(stats[n])
          /\ stats[n][i].Name = "N/A" <=> n \notin NamesIn(added[i])
          /\ n \in NamesIn(added[i]) => stats[n][i].Name \in OutcomesIn(added[i], n)
    /\ Len(added) = 3 =>
          \A n \in DOMAIN stats :
              (n \in NamesIn(added[1]) /\ n \in NamesIn(added[2]) /\ n \notin NamesIn(added[3]))
                  => Status(stats[n]) = "missing"

\* C5: Rows() is the list, sorted by name, of exactly the known names that
\* are leaves or aggregates with at least one direct leaf child.
IsAggregate(known, n) == \E m \in known : HasPrefix(m, n \o <<Dot>>)

IsDirectChild(m, n) ==
    /\ HasPrefix(m, n \o <<Dot>>)
    /\ \A i \in (Len(n) + 2)..Len(m) : m[i] # Dot

ExpectedRowNames(known) ==
    { n \in known :
        \/ ~IsAggregate(known, n)
        \/ \E m \in known : IsDirectChild(m, n) /\ ~IsAggregate(known, m) }

C5_RowSelection ==
    LET rows == Rows(stats)
        known == DOMAIN stats
    IN  /\ { rows[i].Name : i \in 1..Len(rows) } = ExpectedRowNames(known)
        /\ \A i \in 1..Len(rows) : rows[i].statuses = stats[rows[i].Name]
        /\ \A i \in 1..(Len(rows) - 1) : LessStr(rows[i].Name, rows[i + 1].Name)

C5_Witness ==
    LET rows == Rows(stats)
        known == DOMAIN stats
        rowNames == { rows[i].Name : i \in 1..Len(rows) }
    IN  /\ \E n \in known : IsAggregate(known, n) /\ n \notin rowNames
        /\ \E n \in known : IsAggregate(known, n) /\ n \in rowNames
        /\ \E n \in known : ~IsAggregate(known, n) /\ n \in rowNames

\* C6: BuildJSONData emits one test per row that is not a dot-prefix parent
\* of another row and whose name holds a separator, under the suite named by
\* the text before the last separator; each suite once, in order of its
\* first row, tests in row order, one result per column with N/A rendered
\* as MISSING, and no suite without tests.
TestRowIdx(rows) ==
    { k \in 1..Len(rows) :
        /\ ContainsDot(rows[k].Name)
        /\ ~\E j \in 1..Len(rows) : j # k /\ HasPrefix(rows[j].Name, rows[k].Name \o <<Dot>>) }

SuitePathOf(name) == SubSeq(name, 1, LastIndexDot(name) - 1)
LeafNameOf(name) == SubSeq(name, LastIndexDot(name) + 1, Len(name))

\* the flat list of (suite, test, results) of a JSON suite list, in output order
RECURSIVE FlattenJSON(_)
FlattenJSON(js) ==
    IF Len(js) = 0 THEN <<>>
    ELSE [i \in 1..Len(Head(js).tests) |->
             [suite |-> Head(js).name, name |-> Head(js).tests[i].name,
              results |-> Head(js).tests[i].results]]
         \o FlattenJSON(Tail(js))

C6_Hierarchy ==
    dpc = "reported" =>
        LET rows == Rows(stats)
            idx == TestRowIdx(rows)
            flat == FlattenJSON(json)
            FirstRow(sn) == CHOOSE k \in idx :
                               SuitePathOf(rows[k].Name) = sn
                               /\ \A j \in idx : SuitePathOf(rows[j].Name) = sn => k <= j
        IN  \* one entry per test row, under its suite and leaf name
            /\ Len(flat) = Cardinality(idx)
            /\ \A k \in idx : \E i \in 1..Len(flat) :
                  /\ flat[i].suite = SuitePathOf(rows[k].Name)
                  /\ flat[i].name = LeafNameOf(rows[k].Name)
                  /\ flat[i].results = TestResults(rows[k].statuses)
            \* each suite path once, no suite without tests
            /\ \A a, b \in 1..Len(json) : json[a].name = json[b].name => a = b
            /\ \A a \in 1..Len(json) : Len(json[a].tests) > 0
            \* suites in the order of their first row, tests in row order
            /\ \A a, b \in 1..Len(json) :
                  a < b => FirstRow(json[a].name) < FirstRow(json[b].name)
            /\ \A a \in 1..Len(json) : \A i, j \in 1..Len(json[a].tests) :
                  i < j => LessStr(json[a].name \o <<Dot>> \o json[a].tests[i].name,
                                   json[a].name \o <<Dot>> \o json[a].tests[j].name)
            \* one result per column, N/A rendered as MISSING
            /\ \A i \in 1..Len(flat) :
                  /\ Len(flat[i].results) = Len(columnNames)
                  /\ \A c \in 1..Len(flat[i].results) : flat[i].results[c] # "N/A"

\* the parts of C6 other than the length of the results lists
C6_HierarchyShape ==
    dpc = "reported" =>
        LET rows == Rows(stats)
            idx == TestRowIdx(rows)
            flat == FlattenJSON(json)
        IN  /\ Len(flat) = Cardinality(idx)
            /\ \A k \in idx : \E i \in 1..Len(flat) :
                  /\ flat[i].suite = SuitePathOf(rows[k].Name)
                  /\ flat[i].name = LeafNameOf(rows[k].Name)
                  /\ flat[i].results = TestResults(rows[k].statuses)
            /\ \A a, b \in 1..Len(json) : json[a].name = json[b].name => a = b
            /\ \A a \in 1..Len(json) : Len(json[a].tests) > 0


(***************************************************************************)
(* Order-preserving parser (backend/diff/robot.go).                        *)
(*                                                                         *)
(* A document is an element tree [tag, attr, kids]; the decoder sees it as *)
(* the token stream of its start and end tags.  attr is the name attribute *)
(* of test/kw elements and the status attribute of status elements.        *)
(***************************************************************************)
MaxBody == 2       \* children of the <test> element
MaxInner == 2      \* children of a nested kw / branch / iter

El(tag, attr, kids) == [tag |-> tag, attr |-> attr, kids |-> kids]

\* the children a nested container holds in the model
InnerAlphabet == { El("kw", "x", <<>>), El("if", "", <<>>), El("for", "", <<>>) }

InnerBodies == SeqsUpTo(InnerAlphabet, MaxInner) \ { <<>> }

\* the children of a test: plain steps, a status, an element the parser does
\* not know (holding a kw that must not surface), and containers with bodies
ChildElems ==
    InnerAlphabet
    \cup { El("status", "PASS", <<>>), El("doc", "", << El("kw", "z", <<>>) >>) }
    \cup { El("kw", "y", b) : b \in InnerBodies }
    \cup { El("if", "", << El("branch", "", b) >>) : b \in InnerBodies }
    \cup { El("for", "", << El("iter", "", b) >>) : b \in InnerBodies }

TestDocs == { El("test", "t", b) : b \in SeqsUpTo(ChildElems, MaxBody) }

\* the token stream xml.Decoder.Token delivers for an element
RECURSIVE Tokens(_)
RECURSIVE TokensOfAll(_)
Tokens(e) ==
    << [k |-> "start", tag |-> e.tag, attr |-> e.attr] >>
    \o TokensOfAll(e.kids)
    \o << [k |-> "end", tag |-> e.tag, attr |-> ""] >>

TokensOfAll(kids) ==
    IF Len(kids) = 0 THEN <<>> ELSE Tokens(Head(kids)) \o TokensOfAll(Tail(kids))

\* xml.Decoder.Skip, called after the start token at p - 1 was read: the
\* position after the matching end token
RECURSIVE SkipFrom(_, _, _)
SkipFrom(toks, p, depth) ==
    IF p > Len(toks) THEN p
    ELSE IF toks[p].k = "start" THEN SkipFrom(toks, p + 1, depth + 1)
    ELSE IF depth = 1 THEN p + 1
    ELSE SkipFrom(toks, p + 1, depth - 1)

Skip(toks, p) == SkipFrom(toks, p, 1)

\* BodyItem{Keyword: &kw} / BodyItem{If: &ifblk} / BodyItem{For: &forblk}
BodyItem(tag, val) ==
    [Keyword |-> IF tag = "kw" THEN val ELSE Nil,
     If      |-> IF tag = "if" THEN val ELSE Nil,
     For     |-> IF tag = "for" THEN val ELSE Nil]

\* a container update that records a <for> child in Fors only
AppendChildNoForBody(c, tag, val) ==
    CASE tag = "kw"  -> [c EXCEPT !.Keywords = Append(@, val), !.Body = Append(@, BodyItem(tag, val))]
      [] tag = "if"  -> [c EXCEPT !.Ifs = Append(@, val), !.Body = Append(@, BodyItem(tag, val))]
      [] tag = "for" -> [c EXCEPT !.Fors = Append(@, val)]

\* the two appends of a kw / if / for case: the flat list and the Body
AppendChild(c, tag, val) ==
    CASE tag = "kw"  -> [c EXCEPT !.Keywords = Append(@, val), !.Body = Append(@, BodyItem(tag, val))]
      [] tag = "if"  -> [c EXCEPT !.Ifs = Append(@, val), !.Body = Append(@, BodyItem(tag, val))]
      [] tag = "for" -> [c EXCEPT !.Fors = Append(@, val), !.Body = Append(@, BodyItem(tag, val))]

\* *t = Test{} / *k = Keyword{} / *b = Branch{} / *it = Iter{} with the name attribute set
NewContainer(tag, name) ==
    [tag |-> tag, Name |-> name, Status |-> "", Keywords |-> <<>>, Ifs |-> <<>>,
     Fors |-> <<>>, Body |-> <<>>]

\* Each decoder returns [val |-> the decoded value, pos |-> the position
\* after the element's end token]; p is the position after the start token.
RECURSIVE Walk(_, _, _)
RECURSIVE IfWalk(_, _, _)
RECURSIVE ForWalk(_, _, _)

\* Keyword.UnmarshalXML
KeywordUnmarshalXML(toks, p, start) == Walk(toks, p, NewContainer("kw", start.attr))
\* Branch.UnmarshalXML
BranchUnmarshalXML(toks, p, start) == Walk(toks, p, NewContainer("branch", ""))
\* Iter.UnmarshalXML
IterUnmarshalXML(toks, p, start) == Walk(toks, p, NewContainer("iter", ""))
\* DecodeElement into an If (struct decoding: branch children, status)
IfDecode(toks, p) == IfWalk(toks, p, [Branches |-> <<>>, Status |-> ""])
\* DecodeElement into a For (struct decoding: iter children, status)
ForDecode(toks, p) == ForWalk(toks, p, [Iter |-> <<>>, Status |-> ""])

\* the token loop shared by Test, Keyword, Branch and Iter: kw / if / for
\* children are decoded and appended, status is stored, every other child
\* (arg, msg, return, unknown elements) is consumed whole
Walk(toks, p, c) ==
    IF p > Len(toks) THEN [val |-> c, pos |-> p]
    ELSE LET tok == toks[p]
         IN  IF tok.k = "end"
             THEN IF tok.tag = c.tag THEN [val |-> c, pos |-> p + 1]
                  ELSE Walk(toks, p + 1, c)
             ELSE CASE tok.tag = "kw" ->
                         LET r == KeywordUnmarshalXML(toks, p + 1, tok)
                         IN  Walk(toks, r.pos, AppendChild(c, "kw", r.val))
                    [] tok.tag = "if" ->
                         LET r == IfDecode(toks, p + 1)
                         IN  Walk(toks, r.pos, AppendChild(c, "if", r.val))
                    [] tok.tag = "for" ->
                         LET r == ForDecode(toks, p + 1)
                         IN  Walk(toks, r.pos, AppendChild(c, "for", r.val))
                    [] tok.tag = "status" ->
                         Walk(toks, Skip(toks, p + 1), [c EXCEPT !.Status = tok.attr])
                    [] OTHER ->
                         Walk(toks, Skip(toks, p + 1), c)

IfWalk(toks, p, v) ==
    IF p > Len(toks) THEN [val |-> v, pos |-> p]
    ELSE LET tok == toks[p]
         IN  IF tok.k = "end" THEN [val |-> v, pos |-> p + 1]
             ELSE CASE tok.tag = "branch" ->
                         LET r == BranchUnmarshalXML(toks, p + 1, tok)
                         IN  IfWalk(toks, r.pos, [v EXCEPT !.Branches = Append(@, r.val)])
                    [] tok.tag = "status" ->
                         IfWalk(toks, Skip(toks, p + 1), [v EXCEPT !.Status = tok.attr])
                    [] OTHER -> IfWalk(toks, Skip(toks, p + 1), v)

ForWalk(toks, p, v) ==
    IF p > Len(toks) THEN [val |-> v, pos |-> p]
    ELSE LET tok == toks[p]
         IN  IF tok.k = "end" THEN [val |-> v, pos |-> p + 1]
             ELSE CASE tok.tag = "iter" ->
                         LET r == IterUnmarshalXML(toks, p + 1, tok)
                         IN  ForWalk(toks, r.pos, [v EXCEPT !.Iter = Append(@, r.val)])
                    [] tok.tag = "status" ->
                         ForWalk(toks, Skip(toks, p + 1), [v EXCEPT !.Status = tok.attr])
                    [] OTHER -> ForWalk(toks, Skip(toks, p + 1), v)

\* Test.UnmarshalXML on the token stream of a <test> element
TestUnmarshalXML(toks) == Walk(toks, 2, NewContainer("test", toks[1].attr)).val

\* BodyItem.String
BodyItemString(b) ==
    IF b.Keyword # Nil THEN <<"kw", b.Keyword.Name>>
    ELSE IF b.If # Nil THEN <<"if", "">>
    ELSE IF b.For # Nil THEN <<"for", "">>
    ELSE <<"<empty>", "">>

\* orderedBodyToKeywords: the Name of each produced Keyword (IF and FOR for
\* the control structures; the for elements of the model carry no var,
\* flavor or value, so forToKeyword names them FOR)
orderedBodyToKeywords(body) ==
    LET nonEmpty == SelectSeq(body, LAMBDA it : it.Keyword # Nil \/ it.If # Nil \/ it.For # Nil)
    IN  [i \in 1..Len(nonEmpty) |->
            IF nonEmpty[i].Keyword # Nil THEN nonEmpty[i].Keyword.Name
            ELSE IF nonEmpty[i].If # Nil THEN "IF"
            ELSE "FOR"]

\* controlFlowToKeywords: all ifs, then all fors
controlFlowToKeywords(ifs, fors) ==
    [i \in 1..Len(ifs) |-> "IF"] \o [i \in 1..Len(fors) |-> "FOR"]

\* buildTestBodyKeywords: the Body when it is not empty, else the flat lists
buildTestBodyKeywords(test) ==
    IF Len(test.Body) > 0 THEN orderedBodyToKeywords(test.Body)
    ELSE [i \in 1..Len(test.Keywords) |-> test.Keywords[i].Name]
         \o controlFlowToKeywords(test.Ifs, test.Fors)

DiffIdle ==
    stats = <<>> /\ columnNames = <<>> /\ added = <<>> /\ json = <<>> /\ dpc = "idle"

InitParse ==
    /\ PathIdle
    /\ GetIdle
    /\ FindIdle
    /\ RenameIdle
    /\ GoIdle
    /\ WalkIdle
    /\ AttrIdle
    /\ StoreIdle
    /\ DiffIdle
    /\ StatIdle
    /\ doc \in TestDocs
    /\ parsed = Nil
    /\ shown = <<>>
    /\ ppc = "ready"

\* xml decoding reaches the <test> element and calls Test.UnmarshalXML
UnmarshalTest ==
    /\ ppc = "ready"
    /\ parsed' = TestUnmarshalXML(Tokens(doc))
    /\ ppc' = "parsed"
    /\ UNCHANGED <<doc, shown>>
    /\ UNCHANGED nonParseVars

\* the test details handler converts the parsed test for the UI
BuildTestBodyKeywords ==
    /\ ppc = "parsed"
    /\ shown' = buildTestBodyKeywords(parsed)
    /\ ppc' = "shown"
    /\ UNCHANGED <<doc, parsed>>
    /\ UNCHANGED nonParseVars

NextParse ==
    \/ UnmarshalTest
    \/ BuildTestBodyKeywords

SpecParse == InitParse /\ [][NextParse]_vars

(***************************************************************************)
(* Properties of the parser.                                               *)
(***************************************************************************)
IsBodyTag(tag) == tag \in {"kw", "if", "for"}

BodyKids(kids) == SelectSeq(kids, LAMBDA e : IsBodyTag(e.tag))

ExactlyOneSet(b) ==
    Cardinality({ f \in {"Keyword", "If", "For"} : b[f] # Nil }) = 1

\* body is, item by item and at every nesting level, the kw/if/for children of kids
RECURSIVE BodyMatches(_, _)
BodyMatches(body, kids) ==
    LET ks == BodyKids(kids)
    IN  /\ Len(body) = Len(ks)
        /\ \A i \in 1..Len(ks) :
              /\ ExactlyOneSet(body[i])
              /\ CASE ks[i].tag = "kw" ->
                        /\ body[i].Keyword # Nil
                        /\ body[i].Keyword.Name = ks[i].attr
                        /\ BodyMatches(body[i].Keyword.Body, ks[i].kids)
                   [] ks[i].tag = "if" ->
                        /\ body[i].If # Nil
                        /\ LET bs == SelectSeq(ks[i].kids, LAMBDA e : e.tag = "branch")
                           IN  /\ Len(body[i].If.Branches) = Len(bs)
                               /\ \A j \in 1..Len(bs) :
                                     BodyMatches(body[i].If.Branches[j].Body, bs[j].kids)
                   [] ks[i].tag = "for" ->
                        /\ body[i].For # Nil
                        /\ LET its == SelectSeq(ks[i].kids, LAMBDA e : e.tag = "iter")
                           IN  /\ Len(body[i].For.Iter) = Len(its)
                               /\ \A j \in 1..Len(its) :
                                     BodyMatches(body[i].For.Iter[j].Body, its[j].kids)

\* C7: the Body of the test and of every nested keyword, branch and
\* iteration holds exactly one BodyItem per kw/if/for child, with exactly one
\* of Keyword/If/For set, in document order; reading the Body back gives the
\* original sibling kind-and-name sequence.
C7_BodyOrder ==
    ppc \in {"parsed", "shown"} =>
        LET ks == BodyKids(doc.kids)
        IN  /\ BodyMatches(parsed.Body, doc.kids)
            /\ [i \in 1..Len(parsed.Body) |-> BodyItemString(parsed.Body[i])]
                 = [i \in 1..Len(ks) |->
                       <<ks[i].tag, IF ks[i].tag = "kw" THEN ks[i].attr ELSE "">>]
            /\ ppc = "shown" =>
                 shown = [i \in 1..Len(ks) |->
                             CASE ks[i].tag = "kw" -> ks[i].attr
                               [] ks[i].tag = "if" -> "IF"
                               [] ks[i].tag = "for" -> "FOR"]

\* a test whose children are a loop followed by a keyword that itself holds
\* a branch group followed by a step
C7_Witness ==
    /\ ppc = "shown"
    /\ Len(doc.kids) = 2
    /\ doc.kids[1].tag = "for" /\ doc.kids[2].tag = "kw"
    /\ Len(parsed.Body) = 2
    /\ parsed.Body[1].For # Nil
    /\ parsed.Body[2].Keyword # Nil
    /\ Len(parsed.Body[2].Keyword.Body) = 2
    /\ parsed.Body[2].Keyword.Body[1].If # Nil
    /\ parsed.Body[2].Keyword.Body[2].Keyword # Nil
    /\ shown = <<"FOR", "y">>


(***************************************************************************)
(* Fast statistics reader (backend/store/store.go) and CountTests          *)
(* (backend/diff/parse.go).                                                *)
(*                                                                         *)
(* A report file is its suite tree followed by the tail of the document:   *)
(* tokens [k, tag] for start and end tags, and [k |-> "stat", ...] for a   *)
(* whole <stat pass= fail= skip=>name</stat> element.  No "<statistics"    *)
(* occurs inside the suite part.                                           *)
(***************************************************************************)
MaxStatTests == 2     \* tests of the root suite
MaxStats == 2         \* <stat> elements of a statistics block
TailWindow == 8       \* maxTailBytes, counted in tokens of the tail

TestStatusTexts == {"PASS", "FAIL", "SKIP", "pass", "NOT RUN"}

\* strings.ToUpper on a test status
UpperStatus(st) == IF st = "pass" THEN "PASS" ELSE st

StatTests(sts) == [i \in 1..Len(sts) |-> [Name |-> <<"b">>, Status |-> sts[i]]]

StatSuites ==
    { [Name |-> <<"a">>, Suites |-> <<>>, Tests |-> StatTests(sts), Status |-> "PASS"]
        : sts \in SeqsUpTo(TestStatusTexts, MaxStatTests) }
    \cup
    { [Name |-> <<"a">>,
       Suites |-> << [Name |-> <<"c">>, Suites |-> <<>>, Tests |-> StatTests(<<st>>),
                      Status |-> "PASS"] >>,
       Tests |-> <<>>, Status |-> "PASS"] : st \in TestStatusTexts }

Tag(k, tag) == [k |-> k, tag |-> tag]
Stat(name, pass, fail, skip, bad) ==
    [k |-> "stat", tag |-> "stat", name |-> name, pass |-> pass, fail |-> fail,
     skip |-> skip, bad |-> bad]

\* bad marks a pass/fail/skip attribute that is not an integer
StatEntries ==
    { Stat(nm, p, f, 0, FALSE) : nm \in {"All Tests", "Critical Tests"}, p \in 0..1, f \in 0..1 }
    \cup { Stat(" all tests ", 1, 0, 1, FALSE), Stat("All Tests", 0, 0, 0, TRUE) }

Block(entries) ==
    << Tag("start", "statistics"), Tag("start", "total") >> \o entries
    \o << Tag("end", "total"), Tag("end", "statistics") >>

\* what precedes the last block in the tail: nothing, or an earlier block
TailBefore == { <<>>, Block(<< Stat("All Tests", 1, 1, 0, FALSE) >>) }

\* what follows: the end of the document, or a long errors section first
TailAfter ==
    { << Tag("end", "robot") >>,
      << Tag("start", "errors"), Tag("start", "msg"), Tag("end", "msg"),
         Tag("start", "msg"), Tag("end", "msg"), Tag("end", "errors"), Tag("end", "robot") >> }

Tails ==
    { pre \o Block(es) \o post :
        pre \in TailBefore, es \in SeqsUpTo(StatEntries, MaxStats), post \in TailAfter }
    \cup TailAfter

StatDocs == { [suite |-> su, tail |-> tl] : su \in StatSuites, tl \in Tails }

\* the result tuple (pass, fail, total, ok, err)
StatResult(pass, fail, total, ok, err) ==
    [pass |-> pass, fail |-> fail, total |-> total, ok |-> ok, err |-> err]

NotFound == StatResult(0, 0, 0, FALSE, FALSE)
StatError == StatResult(0, 0, 0, FALSE, TRUE)

\* return st.Pass, st.Fail, st.Pass + st.Fail, true, nil
FromStatNoSkip(st) == StatResult(st.pass, st.fail, st.pass + st.fail, TRUE, FALSE)

\* return st.Pass, st.Fail, st.Pass + st.Fail + st.Skip, true, nil
FromStat(st) == StatResult(st.pass, st.fail, st.pass + st.fail + st.skip, TRUE, FALSE)

\* strings.EqualFold(strings.TrimSpace(st.Name), "All Tests")
IsAllTests(name) == name \in {"All Tests", " all tests "}

\* scanStatisticsStream: the token loop with its insideStats and fallback
RECURSIVE scanStatisticsStream(_, _, _, _)
scanStatisticsStream(toks, p, insideStats, fallback) ==
    IF p > Len(toks)
    THEN IF fallback # Nil THEN FromStat(fallback) ELSE NotFound
    ELSE LET tok == toks[p]
         IN  CASE tok.k = "start" ->
                    scanStatisticsStream(toks, p + 1, insideStats \/ tok.tag = "statistics", fallback)
               [] tok.k = "stat" ->
                    IF ~insideStats THEN scanStatisticsStream(toks, p + 1, insideStats, fallback)
                    ELSE IF tok.bad THEN StatError
                    ELSE IF IsAllTests(tok.name) THEN FromStat(tok)
                    ELSE scanStatisticsStream(toks, p + 1, insideStats,
                                              IF fallback = Nil THEN tok ELSE fallback)
               [] tok.k = "end" ->
                    IF insideStats /\ tok.tag = "statistics"
                    THEN IF fallback # Nil THEN FromStat(fallback) ELSE NotFound
                    ELSE scanStatisticsStream(toks, p + 1, insideStats, fallback)

\* scanStatisticsBytes
scanStatisticsBytes(b) == scanStatisticsStream(b, 1, FALSE, Nil)

\* bytes.LastIndex(buf, "<statistics"): 0 when there is none (Go: -1)
LastIndexStatistics(buf) ==
    LET starts == { i \in 1..Len(buf) : buf[i].k = "start" /\ buf[i].tag = "statistics" }
    IN  IF starts = {} THEN 0 ELSE CHOOSE i \in starts : \A j \in starts : j <= i

\* the last readSize units of the file
TailBuf(tail) ==
    LET readSize == IF Len(tail) < TailWindow THEN Len(tail) ELSE TailWindow
    IN  SubSeq(tail, Len(tail) - readSize + 1, Len(tail))

\* readRobotStatisticsFast on a non-empty readable file
readRobotStatisticsFast(d) ==
    LET buf == TailBuf(d.tail)
        idx == LastIndexStatistics(buf)
    IN  IF idx # 0
        THEN LET r == scanStatisticsBytes(SubSeq(buf, idx, Len(buf)))
             IN  IF ~r.err /\ r.ok THEN r ELSE NotFound
        ELSE NotFound

\* CountTests: sub-suites first, then the suite's own tests
RECURSIVE CountTests(_)
RECURSIVE CountSuites(_)
RECURSIVE CountOwn(_)
CountTests(suite) ==
    LET sub == CountSuites(suite.Suites)
        own == CountOwn(suite.Tests)
    IN  [pass |-> sub.pass + own.pass, fail |-> sub.fail + own.fail,
         total |-> sub.total + own.total]

CountSuites(suites) ==
    IF Len(suites) = 0 THEN [pass |-> 0, fail |-> 0, total |-> 0]
    ELSE LET h == CountTests(Head(suites))
             t == CountSuites(Tail(suites))
         IN  [pass |-> h.pass + t.pass, fail |-> h.fail + t.fail, total |-> h.total + t.total]

CountOwn(tests) ==
    IF Len(tests) = 0 THEN [pass |-> 0, fail |-> 0, total |-> 0]
    ELSE LET t == CountOwn(Tail(tests))
             st == UpperStatus(Head(tests).Status)
         IN  [pass |-> t.pass + (IF st = "PASS" THEN 1 ELSE 0),
              fail |-> t.fail + (IF st = "FAIL" THEN 1 ELSE 0),
              total |-> t.total + 1]

InitStat ==
    /\ PathIdle
    /\ GetIdle
    /\ FindIdle
    /\ RenameIdle
    /\ GoIdle
    /\ WalkIdle
    /\ AttrIdle
    /\ StoreIdle
    /\ DiffIdle
    /\ ParseIdle
    /\ sdoc \in StatDocs
    /\ fast = Nil
    /\ counted = Nil
    /\ spc = "ready"

\* the scan reads the statistics of a new or changed file (scanOnce)
ReadStatisticsFast ==
    /\ spc = "ready"
    /\ fast' = readRobotStatisticsFast(sdoc)
    /\ spc' = "fast"
    /\ UNCHANGED <<sdoc, counted>>
    /\ UNCHANGED nonStatVars

\* hydration parses the file and counts the tests of the tree (hydrateRun)
ParseAndCount ==
    /\ spc = "fast"
    /\ counted' = CountTests(sdoc.suite)
    /\ spc' = "done"
    /\ UNCHANGED <<sdoc, fast>>
    /\ UNCHANGED nonStatVars

NextStat ==
    \/ ReadStatisticsFast
    \/ ParseAndCount

SpecStat == InitStat /\ [][NextStat]_vars


(***************************************************************************)
(* Properties of the fast statistics reader.                               *)
(***************************************************************************)
\* the statuses of all tests of a tree
RECURSIVE TreeStatuses(_)
RECURSIVE TreeStatusesOfAll(_)
TreeStatuses(suite) ==
    [i \in 1..Len(suite.Tests) |-> suite.Tests[i].Status] \o TreeStatusesOfAll(suite.Suites)

TreeStatusesOfAll(suites) ==
    IF Len(suites) = 0 THEN <<>>
    ELSE TreeStatuses(Head(suites)) \o TreeStatusesOfAll(Tail(suites))

NumWithStatus(suite, st) ==
    LET all == TreeStatuses(suite)
    IN  Cardinality({ i \in 1..Len(all) : UpperStatus(all[i]) = st })

\* the aggregate entry the reader is specified to use: in the last
\* statistics block of the tail window, the first entry named "All Tests",
\* else the first entry (Nil when the window holds no such entry)
SelectedStat(tail) ==
    LET buf == TailBuf(tail)
        starts == { i \in 1..Len(buf) : buf[i].k = "start" /\ buf[i].tag = "statistics" }
    IN  IF starts = {} THEN Nil
        ELSE LET s == CHOOSE i \in starts : \A j \in starts : j <= i
                 ends == { i \in s..Len(buf) : buf[i].k = "end" /\ buf[i].tag = "statistics" }
                 e == IF ends = {} THEN Len(buf) + 1
                      ELSE CHOOSE i \in ends : \A j \in ends : i <= j
                 entries == { i \in s..(e - 1) : buf[i].k = "stat" }
                 named == { i \in entries : IsAllTests(buf[i].name) }
                 pick == IF named # {} THEN named ELSE entries
             IN  IF entries = {} THEN Nil
                 ELSE buf[CHOOSE i \in pick : \A j \in pick : i <= j]

StatAgrees(sel, suite) ==
    /\ sel.pass = NumWithStatus(suite, "PASS")
    /\ sel.fail = NumWithStatus(suite, "FAIL")
    /\ sel.skip = NumWithStatus(suite, "SKIP")

OnlyPassFailSkip(suite) ==
    LET all == TreeStatuses(suite)
    IN  \A i \in 1..Len(all) : UpperStatus(all[i]) \in {"PASS", "FAIL", "SKIP"}

\* C8 (as claimed): whenever the fast reader reports found = true, its
\* (pass, fail, total) equals what CountTests computes on the parsed tree.
C8_FastEqualsCount ==
    (spc = "done" /\ fast.ok) =>
        /\ fast.pass = counted.pass
        /\ fast.fail = counted.fail
        /\ fast.total = counted.total

\* C8 (amended): whenever the fast reader reports found = true, its result
\* is (p, f, p + f + s) of the selected aggregate entry; when that entry's
\* attributes are the numbers of PASS / FAIL / SKIP tests of the tree, pass
\* and fail equal CountTests' and total equals CountTests' total exactly
\* when every test is PASS, FAIL or SKIP.
C8_FastEqualsSelectedStat ==
    (spc = "done" /\ fast.ok) =>
        LET sel == SelectedStat(sdoc.tail)
        IN  /\ sel # Nil
            /\ fast.pass = sel.pass
            /\ fast.fail = sel.fail
            /\ fast.total = sel.pass + sel.fail + sel.skip
            /\ StatAgrees(sel, sdoc.suite) =>
                  /\ fast.pass = counted.pass
                  /\ fast.fail = counted.fail
                  /\ fast.total = counted.total <=> OnlyPassFailSkip(sdoc.suite)

\* a block whose first entry is not the aggregate, whose "All Tests" entry
\* counts a skipped test and agrees with a tree of two tests
C8_Witness ==
    /\ spc = "done"
    /\ fast.ok
    /\ LET sel == SelectedStat(sdoc.tail)
       IN  /\ sel # Nil
           /\ sel.skip = 1
           /\ StatAgrees(sel, sdoc.suite)
           /\ fast.total = 2
           /\ counted.total = 2
    /\ \E i \in 1..Len(sdoc.tail) :
          sdoc.tail[i].k = "stat" /\ sdoc.tail[i].name = "Critical Tests"
          /\ sdoc.tail[i + 1].k = "stat" /\ sdoc.tail[i + 1].name = " all tests "

(***************************************************************************)
(* Run store (backend/store/store.go).                                     *)
(*                                                                         *)
(* The runs directory holds report files root/<p>/output.xml.  A file's    *)
(* content is identified by its modification time (every write gives a     *)
(* new one), the file's own length stands for that content, and aux is     *)
(* the length of the sibling artifacts log.html and report.html.           *)
(* A runEntry is a heap object: heap[id][g] is the g-th entry allocated    *)
(* for id, and a map holds the number g as the pointer to it (0: no key).  *)
(***************************************************************************)
Paths == {"p1", "p2"}

\* the callers of scanOnce: scanLoop and the delete handler's ScanOnce
Scanners == {"loop", "handler"}

MaxScans == 2

MaxFsChanges == 1

\* runtime.GOMAXPROCS(0) / 2 on a machine with two or three processors
workerCount == 1

Workers == 1..workerCount

\* the report files whose last bytes hold a <statistics> block
StatsInTail == {"p1"}

\* the report files present when the store is created
InitialRuns == {"p1"}

\* os.ReadDir lists a directory sorted by file name
WalkOrder == <<"p1", "p2">>

\* hex of sha256(abs): one id per path, written here as the path itself
stableID(abs) == abs

EmptyMap == [id \in Paths |-> 0]

XmlSize(file) == file.mtime

runFolderSize(file) == XmlSize(file) + file.aux

\* the runEntry built by a scan for a new or changed file; countsFrom and
\* durationFrom name the content the counts and the duration were taken from
NewEntry(abs, file) ==
    [abs |-> abs,
     ModTime |-> file.mtime,
     Size |-> runFolderSize(file),
     countsFrom |-> IF abs \in StatsInTail THEN file.mtime ELSE 0,
     durationFrom |-> 0,
     robot |-> 0,
     robotModTime |-> 0,
     robotSize |-> 0,
     statsIncomplete |-> abs \notin StatsInTail,
     durationIncomplete |-> TRUE]

\* some scan is filling its new map, which is not yet what s.runs holds
MidScan ==
    \E s \in Scanners :
        scan[s].pc = "walk" /\ scan[s].todo # <<>> /\ scan[s].updated # runs

\* what a reader of s.runs saw under the lock: whether the map was the one
\* the last finished scan swapped in, whether it was the empty map of
\* NewRunStore with no scan finished yet, and whether a scan was under way
Seen == [whole |-> published # Nil /\ runs = published,
         fresh |-> published = Nil /\ runs = EmptyMap,
         midScan |-> MidScan]

\* runEntry objects no map points to any more are collected
GC(h, r, sc) ==
    [id \in Paths |->
        [g \in DOMAIN h[id] |->
            IF \/ r[id] = g
               \/ \E s \in Scanners : sc[s].prev[id] = g \/ sc[s].updated[id] = g
            THEN h[id][g]
            ELSE Nil]]

IdleScan ==
    [pc |-> "idle", prev |-> EmptyMap, updated |-> EmptyMap, todo |-> <<>>,
     reads |-> {}, found |-> {}, dirty |-> FALSE, overlapped |-> FALSE,
     files |-> {}, failed |-> {}]

IdleWorker == [pc |-> "idle", id |-> "", fi |-> Nil, robot |-> 0]

FillOff == [pc |-> "off", jobs |-> {}, passes |-> 0]

\* a change of the directory: the scans under way, and the scan behind
\* s.runs, have now seen (or may have seen) an older directory
NotedScan ==
    [s \in Scanners |->
        IF scan[s].pc = "walk" THEN [scan[s] EXCEPT !.dirty = TRUE] ELSE scan[s]]

NoteChange ==
    /\ changed' = TRUE
    /\ scan' = NotedScan

InitStore ==
    /\ PathIdle
    /\ GetIdle
    /\ FindIdle
    /\ RenameIdle
    /\ GoIdle
    /\ WalkIdle
    /\ AttrIdle
    /\ DiffIdle
    /\ ParseIdle
    /\ StatIdle
    /\ fs = [f \in Paths |-> [exists |-> f \in InitialRuns, mtime |-> 1, aux |-> 0]]
    /\ heap = [id \in Paths |-> <<>>]
    /\ runs = EmptyMap
    /\ scan = [s \in Scanners |-> IdleScan]
    /\ fillInProgress = FALSE
    /\ fill = FillOff
    /\ worker = [w \in Workers |-> IdleWorker]
    /\ obs = Nil
    /\ published = Nil
    /\ changed = FALSE
    /\ nScans = 0
    /\ nChanges = 0

\* ---- the directory changes under the store ----
\* the report is written again
EnvTouch(f) ==
    /\ nChanges < MaxFsChanges
    /\ fs[f].exists
    /\ fs' = [fs EXCEPT ![f].mtime = @ + 1]
    /\ nChanges' = nChanges + 1
    /\ NoteChange
    /\ UNCHANGED <<heap, runs, fillInProgress, fill, worker, obs, published, nScans>>
    /\ UNCHANGED nonStoreVars

\* log.html or report.html is written next to the report
EnvResize(f) ==
    /\ nChanges < MaxFsChanges
    /\ fs[f].exists
    /\ fs' = [fs EXCEPT ![f].aux = 1 - @]
    /\ nChanges' = nChanges + 1
    /\ NoteChange
    /\ UNCHANGED <<heap, runs, fillInProgress, fill, worker, obs, published, nScans>>
    /\ UNCHANGED nonStoreVars

\* a new run appears
EnvCreate(f) ==
    /\ nChanges < MaxFsChanges
    /\ ~fs[f].exists
    /\ fs' = [fs EXCEPT ![f] = [exists |-> TRUE, mtime |-> @.mtime + 1, aux |-> 0]]
    /\ nChanges' = nChanges + 1
    /\ NoteChange
    /\ UNCHANGED <<heap, runs, fillInProgress, fill, worker, obs, published, nScans>>
    /\ UNCHANGED nonStoreVars

\* ---- scanOnce ----
\* the mistake of filling the new map starting from the old one
CopiedUpdated(prev) == prev

\* updated := make(map[string]*runEntry, 128)
FreshUpdated(prev) == EmptyMap

\* DeleteRuns, first half: the run files of the known ids, read under RLock
HandleDeleteRuns(ids) ==
    /\ scan["handler"].pc = "idle"
    /\ nScans < MaxScans
    /\ nScans' = nScans + 1
    /\ scan' = [scan EXCEPT !["handler"] =
                  [IdleScan EXCEPT !.pc = "delete",
                                   !.files = {heap[id][runs[id]].abs :
                                                 id \in {i \in ids : runs[i] # 0}}]]
    /\ obs' = Seen
    /\ UNCHANGED <<fs, heap, runs, fillInProgress, fill, worker, published, changed, nChanges>>
    /\ UNCHANGED nonStoreVars

\* DeleteRuns, second half: os.RemoveAll of one run folder, outside the lock
DeleteFile(f) ==
    /\ scan["handler"].pc = "delete"
    /\ f \in scan["handler"].files
    /\ fs' = [fs EXCEPT ![f].exists = FALSE]
    /\ changed' = (changed \/ fs[f].exists)
    /\ scan' = [(IF fs[f].exists THEN NotedScan ELSE scan)
                   EXCEPT !["handler"].files = @ \ {f}]
    /\ UNCHANGED <<heap, runs, fillInProgress, fill, worker, obs, published, nScans, nChanges>>
    /\ UNCHANGED nonStoreVars

\* the snapshot of s.runs under RLock that opens a scan
Snapshot(s) ==
    /\ scan' = [scan EXCEPT ![s] =
                  [IdleScan EXCEPT !.pc = "walk",
                                   !.prev = runs,
                                   !.updated = FreshUpdated(runs),
                                   !.todo = WalkOrder]]
    /\ UNCHANGED <<fs, heap, runs, fillInProgress, fill, worker, obs, published, changed, nChanges>>
    /\ UNCHANGED nonStoreVars

\* scanLoop: the first scan and every tick of the timer
LoopScanBegin ==
    /\ scan["loop"].pc = "idle"
    /\ nScans < MaxScans
    /\ nScans' = nScans + 1
    /\ Snapshot("loop")

\* handleDeleteRuns: ScanOnce after DeleteRuns returned without error
HandlerScanBegin ==
    /\ scan["handler"].pc = "delete"
    /\ scan["handler"].files = {}
    /\ UNCHANGED nScans
    /\ Snapshot("handler")

\* the body of scanDir's loop for one report file
ScanFile(s) ==
    /\ scan[s].pc = "walk"
    /\ scan[s].todo # <<>>
    /\ LET f == Head(scan[s].todo)
           file == fs[f]
           id == stableID(f)
           existing == scan[s].prev[id]
           rest == [scan[s] EXCEPT !.todo = Tail(@)]
       IN  IF ~file.exists
           THEN \* the folder is gone: os.ReadDir fails or lists nothing
                /\ scan' = [scan EXCEPT ![s] = rest]
                /\ UNCHANGED heap
           ELSE IF /\ existing # 0
                   /\ heap[id][existing].ModTime = file.mtime
                   /\ heap[id][existing].Size = runFolderSize(file)
                THEN /\ scan' = [scan EXCEPT ![s] =
                                   [rest EXCEPT !.updated[id] = existing,
                                                !.found = @ \cup {id}]]
                     /\ UNCHANGED heap
                ELSE \* readRobotStatisticsFast, then a new runEntry
                     /\ heap' = [heap EXCEPT ![id] = Append(@, NewEntry(f, file))]
                     /\ scan' = [scan EXCEPT ![s] =
                                   [rest EXCEPT !.updated[id] = Len(heap[id]) + 1,
                                                !.found = @ \cup {id},
                                                !.reads = @ \cup {id}]]
    /\ UNCHANGED <<fs, runs, fillInProgress, fill, worker, obs, published, changed, nScans, nChanges>>
    /\ UNCHANGED nonStoreVars

\* s.runs = updated, under Lock
\* the points of scanDir's loop body at which an I/O failure ends the work on
\* one report file: the probe isRobotXMLFile (os.Open, Read), os.Stat, and
\* readRobotStatisticsFast
ScanFailures == {"probe", "stat", "read"}

\* the body of scanDir's loop for one report file that os.ReadDir listed and
\* that cannot be opened, stat'ed or read at the point `at`: each of the three
\* error paths is a bare `continue`, which leaves updated[id] unset; the fast
\* statistics are read only when the fingerprint of the previous entry does
\* not match
ScanFileFails(s, at) ==
    /\ scan[s].pc = "walk"
    /\ scan[s].todo # <<>>
    /\ LET f == Head(scan[s].todo)
           file == fs[f]
           id == stableID(f)
           existing == scan[s].prev[id]
       IN  /\ file.exists
           /\ at = "read" =>
                ~ /\ existing # 0
                  /\ heap[id][existing].ModTime = file.mtime
                  /\ heap[id][existing].Size = runFolderSize(file)
           /\ scan' = [scan EXCEPT ![s] =
                         [@ EXCEPT !.todo = Tail(@),
                                   !.failed = @ \cup {id}]]
    /\ UNCHANGED <<fs, heap, runs, fillInProgress, fill, worker, obs, published, changed, nScans, nChanges>>
    /\ UNCHANGED nonStoreVars

ScanSwap(s) ==
    /\ scan[s].pc = "walk"
    /\ scan[s].todo = <<>>
    /\ runs' = scan[s].updated
    /\ published' = scan[s].updated
    /\ changed' = scan[s].dirty
    /\ scan' = [t \in Scanners |->
                  IF t = s THEN [scan[t] EXCEPT !.pc = "fill"]
                  ELSE IF scan[t].pc = "walk"
                       THEN [scan[t] EXCEPT !.overlapped = TRUE]
                       ELSE scan[t]]
    /\ heap' = GC(heap, runs', scan')
    /\ UNCHANGED <<fs, fillInProgress, fill, worker, obs, nScans, nChanges>>
    /\ UNCHANGED nonStoreVars

\* a start that does not look at fillInProgress
StartBackgroundFillUnguarded(s) ==
    /\ scan[s].pc = "fill"
    /\ scan' = [scan EXCEPT ![s] = IdleScan]
    /\ fillInProgress' = TRUE
    /\ fill' = [pc |-> "collect", jobs |-> {}, passes |-> fill.passes + 1]
    /\ heap' = GC(heap, runs, scan')
    /\ UNCHANGED <<fs, runs, worker, obs, published, changed, nScans, nChanges>>
    /\ UNCHANGED nonStoreVars

\* startBackgroundFill up to the go statement; scanOnce returns.  passes
\* counts the fill goroutines started and not yet returned
StartBackgroundFill(s) ==
    /\ scan[s].pc = "fill"
    /\ scan' = [scan EXCEPT ![s] = IdleScan]
    /\ IF fillInProgress
       THEN UNCHANGED <<fillInProgress, fill>>
       ELSE /\ fillInProgress' = TRUE
            /\ fill' = [pc |-> "collect", jobs |-> {}, passes |-> fill.passes + 1]
    /\ heap' = GC(heap, runs, scan')
    /\ UNCHANGED <<fs, runs, worker, obs, published, changed, nScans, nChanges>>
    /\ UNCHANGED nonStoreVars

\* ---- background fill ----
Incomplete(e) == e.statsIncomplete \/ e.durationIncomplete

\* a collection that looks at statsIncomplete only
collectStatsIncompleteIDs ==
    {id \in Paths : runs[id] # 0 /\ heap[id][runs[id]].statsIncomplete}

collectIncompleteIDs ==
    {id \in Paths : runs[id] # 0 /\ Incomplete(heap[id][runs[id]])}

\* the fill goroutine: collectIncompleteIDs, then the workers are started
FillCollect ==
    /\ fill.pc = "collect"
    /\ IF collectIncompleteIDs = {}
       THEN fill' = FillOff /\ fillInProgress' = FALSE
       ELSE /\ fill' = [fill EXCEPT !.pc = "feed", !.jobs = collectIncompleteIDs]
            /\ UNCHANGED fillInProgress
    /\ UNCHANGED <<fs, heap, runs, scan, worker, obs, published, changed, nScans, nChanges>>
    /\ UNCHANGED nonStoreVars

\* jobs <- id, received by an idle worker, which enters hydrateRun: the
\* entry is read under RLock and must still be incomplete
FillFeed(w, id) ==
    /\ fill.pc = "feed"
    /\ id \in fill.jobs
    /\ worker[w].pc = "idle"
    /\ fill' = [fill EXCEPT !.jobs = @ \ {id}]
    /\ IF runs[id] = 0 \/ ~Incomplete(heap[id][runs[id]])
       THEN UNCHANGED worker
       ELSE worker' = [worker EXCEPT ![w] = [IdleWorker EXCEPT !.pc = "stat", !.id = id]]
    /\ UNCHANGED <<fs, heap, runs, scan, fillInProgress, obs, published, changed, nScans, nChanges>>
    /\ UNCHANGED nonStoreVars

\* hydrateRun: os.Stat(abs)
HydrateStat(w) ==
    /\ worker[w].pc = "stat"
    /\ LET file == fs[worker[w].id]
       IN  IF ~file.exists
           THEN worker' = [worker EXCEPT ![w] = IdleWorker]
           ELSE worker' = [worker EXCEPT ![w].pc = "parse",
                                         ![w].fi = [ModTime |-> file.mtime,
                                                    Size |-> XmlSize(file)]]
    /\ UNCHANGED <<fs, heap, runs, scan, fillInProgress, fill, obs, published, changed, nScans, nChanges>>
    /\ UNCHANGED nonStoreVars

\* hydrateRun: ParseRobotXMLFileContext(ctx, abs), outside the lock
HydrateParse(w) ==
    /\ worker[w].pc = "parse"
    /\ LET file == fs[worker[w].id]
       IN  IF ~file.exists
           THEN worker' = [worker EXCEPT ![w] = IdleWorker]
           ELSE worker' = [worker EXCEPT ![w].pc = "commit", ![w].robot = file.mtime]
    /\ UNCHANGED <<fs, heap, runs, scan, fillInProgress, fill, obs, published, changed, nScans, nChanges>>
    /\ UNCHANGED nonStoreVars

\* the fields hydrateRun writes under Lock
Hydrated(e, fi, robot) ==
    [e EXCEPT !.robot = robot,
              !.robotModTime = fi.ModTime,
              !.robotSize = fi.Size,
              !.countsFrom = IF e.statsIncomplete THEN robot ELSE @,
              !.statsIncomplete = FALSE,
              !.durationFrom = IF e.durationIncomplete THEN robot ELSE @,
              !.durationIncomplete = FALSE]

\* hydrateRun: the commit to whatever entry s.runs holds for the id now
HydrateCommit(w) ==
    /\ worker[w].pc = "commit"
    /\ LET id == worker[w].id
       IN  IF runs[id] = 0
           THEN UNCHANGED heap
           ELSE heap' = [heap EXCEPT ![id][runs[id]] =
                           Hydrated(@, worker[w].fi, worker[w].robot)]
    /\ worker' = [worker EXCEPT ![w] = IdleWorker]
    /\ UNCHANGED <<fs, runs, scan, fillInProgress, fill, obs, published, changed, nScans, nChanges>>
    /\ UNCHANGED nonStoreVars

\* close(jobs), wg.Wait() and the deferred reset of fillInProgress
FillDone ==
    /\ fill.pc = "feed"
    /\ fill.jobs = {}
    /\ \A w \in Workers : worker[w].pc = "idle"
    /\ fill' = FillOff
    /\ fillInProgress' = FALSE
    /\ UNCHANGED <<fs, heap, runs, scan, worker, obs, published, changed, nScans, nChanges>>
    /\ UNCHANGED nonStoreVars

\* ---- readers ----
ListRuns ==
    /\ obs' = Seen
    /\ UNCHANGED <<fs, heap, runs, scan, fillInProgress, fill, worker, published, changed, nScans, nChanges>>
    /\ UNCHANGED nonStoreVars

\* ctx.Err() # nil at the c-th look at a deadline that expires at look e;
\* the looks of a call are numbered in the order the code makes them
Expired(c, e) == c >= e

\* ensureRobotLoadedLocked on entry en of file, c looks at the deadline having
\* been made before: [err, entry, started]; started tells whether
\* xml.Unmarshal was started
ensureRobotLoadedLocked(en, file, c, e) ==
    IF ~file.exists
    THEN [err |-> "stat", entry |-> en, started |-> FALSE]
    ELSE IF en.robot # 0 /\ en.robotModTime = file.mtime /\ en.robotSize = XmlSize(file)
         THEN [err |-> "", entry |-> en, started |-> FALSE]
         ELSE IF Expired(c + 1, e)
              THEN \* ctx.Err() at the head of ParseRobotXML(File|Bytes)Context
                   [err |-> "deadline", entry |-> en, started |-> FALSE]
              ELSE IF Expired(c + 2, e)
                   THEN \* <-ctx.Done() wins the select while xml.Unmarshal runs
                        [err |-> "deadline", entry |-> en, started |-> TRUE]
                   ELSE [err |-> "",
                         entry |-> Hydrated(en, [ModTime |-> file.mtime,
                                                 Size |-> XmlSize(file)], file.mtime),
                         started |-> TRUE]

\* the loop of GetRuns from the i-th id on, all under Lock:
\* [heap, err, n, started, interrupted], n robots collected, started parses
\* begun, interrupted: the call returned while a parse it started was decoding
RECURSIVE GetRunsLoop(_, _, _, _, _)
GetRunsLoop(h, ids, i, e, started) ==
    IF i > Len(ids) THEN [heap |-> h, err |-> "", n |-> Len(ids), started |-> started,
                          interrupted |-> FALSE]
    ELSE IF Expired(3 * (i - 1) + 1, e)
         THEN [heap |-> h, err |-> "deadline", n |-> 0, started |-> started,
               interrupted |-> FALSE]
         ELSE IF runs[ids[i]] = 0
              THEN [heap |-> h, err |-> "run not found", n |-> 0, started |-> started,
                    interrupted |-> FALSE]
              ELSE LET id == ids[i]
                       r == ensureRobotLoadedLocked(h[id][runs[id]], fs[h[id][runs[id]].abs],
                                                    3 * (i - 1) + 1, e)
                       st == started + (IF r.started THEN 1 ELSE 0)
                   IN  IF r.err # ""
                       THEN [heap |-> h, err |-> r.err, n |-> 0, started |-> st,
                             interrupted |-> r.err = "deadline" /\ r.started]
                       ELSE GetRunsLoop([h EXCEPT ![id][runs[id]] = r.entry], ids, i + 1, e, st)

\* a deadline that does not expire during a call with n ids
NoDeadline(n) == 3 * n + 1

\* GetRuns for a request whose deadline does not expire
GetRuns(ids) ==
    /\ heap' = GetRunsLoop(heap, ids, 1, NoDeadline(Len(ids)), 0).heap
    /\ obs' = Seen
    /\ UNCHANGED <<fs, runs, scan, fillInProgress, fill, worker, published, changed, nScans, nChanges>>
    /\ UNCHANGED nonStoreVars

\* a rename that also moves the catalog entry to the key of the new path
RenameRunRekeying(id, new) ==
    /\ nChanges < MaxFsChanges
    /\ runs[id] # 0
    /\ LET old == heap[id][runs[id]].abs
       IN  /\ fs[old].exists
           /\ new # old
           /\ ~fs[new].exists
           /\ fs' = [fs EXCEPT ![old].exists = FALSE,
                               ![new] = [fs[old] EXCEPT !.exists = TRUE]]
           /\ renamed' = [old |-> old, new |-> new]
           /\ runs' = [runs EXCEPT ![id] = 0, ![new] = Len(heap[new]) + 1]
           /\ heap' = [heap EXCEPT ![new] = Append(@, [heap[id][runs[id]] EXCEPT !.abs = new])]
    /\ nChanges' = nChanges + 1
    /\ NoteChange
    /\ obs' = Seen
    /\ UNCHANGED <<fillInProgress, fill, worker, published, nScans>>
    /\ UNCHANGED <<diffVars, parseVars, statVars, pathVars, getVars, findVars,
                   attrVars, walkVars, goVars>>

\* RenameRun of a known run whose report exists to a name that is free: the
\* lookup under RLock, then os.Rename, which moves the report with its
\* modification time from the old path to the new one
RenameRunMoving(id, new) ==
    /\ nChanges < MaxFsChanges
    /\ runs[id] # 0
    /\ LET old == heap[id][runs[id]].abs
       IN  /\ fs[old].exists
           /\ new # old
           /\ ~fs[new].exists
           /\ fs' = [fs EXCEPT ![old].exists = FALSE,
                               ![new] = [fs[old] EXCEPT !.exists = TRUE]]
           /\ renamed' = [old |-> old, new |-> new]
    /\ nChanges' = nChanges + 1
    /\ NoteChange
    /\ obs' = Seen
    /\ UNCHANGED <<heap, runs, fillInProgress, fill, worker, published, nScans>>
    /\ UNCHANGED <<diffVars, parseVars, statVars, pathVars, getVars, findVars,
                   attrVars, walkVars, goVars>>

MaxIds == 2

NextStore ==
    \/ \E f \in Paths : EnvTouch(f)
    \/ \E f \in Paths : EnvResize(f)
    \/ \E f \in Paths : EnvCreate(f)
    \/ \E ids \in SUBSET Paths \ {{}} : HandleDeleteRuns(ids)
    \/ \E f \in Paths : DeleteFile(f)
    \/ LoopScanBegin
    \/ HandlerScanBegin
    \/ \E s \in Scanners : ScanFile(s)
    \/ \E s \in Scanners : ScanSwap(s)
    \/ \E s \in Scanners : StartBackgroundFill(s)
    \/ FillCollect
    \/ \E w \in Workers, id \in Paths : FillFeed(w, id)
    \/ \E w \in Workers : HydrateStat(w)
    \/ \E w \in Workers : HydrateParse(w)
    \/ \E w \in Workers : HydrateCommit(w)
    \/ FillDone
    \/ ListRuns
    \/ \E ids \in SeqsUpTo(Paths, MaxIds) \ {<<>>} : GetRuns(ids)
    \/ \E id \in Paths, new \in Paths : RenameRunMoving(id, new)

SpecStore == InitStore /\ [][NextStore]_vars

\* ---- properties of the run store ----
\* the step in which scanner s swaps its map in
SwapBy(s) == scan[s].pc = "walk" /\ scan'[s].pc = "fill"

\* C9 (as claimed): a scanOnce over a directory in which nothing changed since
\* the previous scan (the scan whose map s.runs holds) puts, for every id, the
\* very same runEntry object in the new catalog, and reads no statistics
C9_IdempotentScan ==
    [][\A s \in Scanners :
          (SwapBy(s) /\ published # Nil /\ ~changed)
              => (runs' = runs /\ scan[s].reads = {})]_vars

\* what does hold of the carry-over: the same, for a scan during which no
\* other scan swapped its map in
CarryOverWithoutOverlap ==
    [][\A s \in Scanners :
          (SwapBy(s) /\ published # Nil /\ ~changed /\ ~scan[s].overlapped)
              => (runs' = runs /\ scan[s].reads = {})]_vars

\* such a scan has carried a catalog with an entry over
CarryOverReached ==
    \E s \in Scanners :
        /\ scan[s].pc = "fill"
        /\ ~scan[s].overlapped
        /\ scan[s].prev = runs
        /\ runs # EmptyMap
        /\ scan[s].reads = {}
        /\ ~changed

\* every read of s.runs under the lock saw the map of a finished scan
ReadersSeeScannedMap == obs # Nil => obs.whole

\* ... or the empty map the store is created with, no scan having finished
ReadersSeeScannedOrFreshMap == obs # Nil => (obs.whole \/ obs.fresh)

\* the map a scan swaps in has no key for an id whose file it did not find
SwapDropsUnfound ==
    \A s \in Scanners :
        SwapBy(s) => \A id \in Paths : id \notin scan[s].found => runs'[id] = 0

Slash == "/"

\* strings.HasSuffix
HasSuffix(s, x) == Len(x) <= Len(s) /\ SubSeq(s, Len(s) - Len(x) + 1, Len(s)) = x

\* index of the last "/" of p, 0 when there is none
LastSlash(p) ==
    IF \E i \in 1..Len(p) : p[i] = Slash
    THEN CHOOSE i \in 1..Len(p) : p[i] = Slash /\ \A j \in (i+1)..Len(p) : p[j] # Slash
    ELSE 0

\* filepath.Clean, for paths without ".", ".." and doubled separators
Clean(p) ==
    IF Len(p) > 1 /\ p[Len(p)] = Slash THEN SubSeq(p, 1, Len(p) - 1) ELSE p

\* filepath.Dir
Dir(p) ==
    LET i == LastSlash(p)
    IN  IF i = 0 THEN <<".">>
        ELSE IF i = 1 THEN <<Slash>>
        ELSE SubSeq(p, 1, i - 1)

\* filepath.Join(dir, name)
JoinPath(dir, name) == Clean(dir \o <<Slash>> \o name)

samePath(a, b) == Clean(a) = Clean(b)

isSubpath(root, path) ==
    \/ samePath(root, path)
    \/ HasPrefix(Clean(path),
                 IF HasSuffix(Clean(root), <<Slash>>) THEN Clean(root)
                 ELSE Clean(root) \o <<Slash>>)

\* path p is x or lies beneath x
Beneath(p, x) == p = x \/ HasPrefix(p, x \o <<Slash>>)

File(p) == [path |-> p, target |-> <<>>]

Link(p, t) == [path |-> p, target |-> t]

\* os.Lstat(p) succeeds: an object or a directory is there
LstatOK(d, p) == \E o \in d : Beneath(o.path, p)

\* p with the symbolic links on it replaced by their targets (n levels)
RECURSIVE Resolve(_, _, _)
Resolve(d, p, n) ==
    LET ls == {o \in d : o.target # <<>> /\ Beneath(p, o.path)}
    IN  IF ls = {} \/ n = 0 THEN p
        ELSE LET l == CHOOSE o \in ls : TRUE
             IN  Resolve(d, l.target \o SubSeq(p, Len(l.path) + 1, Len(p)), n - 1)

MaxLinks == 2

\* filepath.EvalSymlinks(p): [ok, path]
EvalSymlinks(d, p) ==
    LET r == Resolve(d, p, MaxLinks)
    IN  [ok |-> LstatOK(d, r), path |-> r]

\* fileReal := fileAbs; if r, err := filepath.EvalSymlinks(fileAbs); err == nil { fileReal = r }
RealOrAbs(d, p) == IF EvalSymlinks(d, p).ok THEN EvalSymlinks(d, p).path ELSE p

\* os.Stat(p) succeeds
StatOK(d, p) == EvalSymlinks(d, p).ok

\* os.RemoveAll(p): p and everything beneath it; a link is not followed
RemoveAll(d, p) == {o \in d : ~Beneath(o.path, p)}

\* os.Rename(old, new): old and everything beneath it moves to new, which
\* is replaced when it is there
Rename(d, old, new) ==
    {o \in d : ~Beneath(o.path, old) /\ ~Beneath(o.path, new)}
    \cup {[o EXCEPT !.path = new \o SubSeq(o.path, Len(old) + 1, Len(o.path))] :
             o \in {x \in d : Beneath(x.path, old)}}

\* ---- the runs directory ----
rootAbs == <<"/", "r">>

\* abs of the catalog entry of each id
AbsOf(id) ==
    CASE id = "a" -> <<"/", "r", "/", "a", "/", "o", ".", "x", "m", "l">>
      [] id = "b" -> <<"/", "r", "/", "b", ".", "x", "m", "l">>
      [] id = "l" -> <<"/", "r", "/", "l", "/", "o", ".", "x", "m", "l">>
      [] id = "k" -> <<"/", "r", "/", "k", ".", "x", "m", "l">>
      [] id = "c" -> <<"/", "r", "/", "a", "/", "p", ".", "x", "m", "l">>

RunIds == {"a", "b", "l", "k", "c"}

\* a run folder holding two reports, a report in the root, a folder linked
\* in from /o, and a report linked in from /rx
InitialDisk ==
    { File(AbsOf("a")),
      File(AbsOf("c")),
      File(AbsOf("b")),
      Link(<<"/", "r", "/", "l">>, <<"/", "o">>),
      File(<<"/", "o", "/", "o", ".", "x", "m", "l">>),
      Link(AbsOf("k"), <<"/", "r", "x", "/", "k", ".", "x", "m", "l">>),
      File(<<"/", "r", "x", "/", "k", ".", "x", "m", "l">>) }

\* ---- normalizeRunName ----
Space == " "

\* strings.TrimSpace
RECURSIVE TrimLeft(_)
TrimLeft(s) == IF s # <<>> /\ Head(s) = Space THEN TrimLeft(Tail(s)) ELSE s

RECURSIVE TrimRight(_)
TrimRight(s) ==
    IF s # <<>> /\ s[Len(s)] = Space THEN TrimRight(SubSeq(s, 1, Len(s) - 1)) ELSE s

TrimSpace(s) == TrimRight(TrimLeft(s))

\* strings.Contains(s, ch) for a single letter
ContainsCh(s, ch) == \E i \in 1..Len(s) : s[i] = ch

\* filepath.Ext: from the last "." of the last path element on
Ext(s) ==
    LET base == SubSeq(s, LastSlash(s) + 1, Len(s))
        i == LastIndexDot(base)
    IN  IF i = 0 THEN <<>> ELSE SubSeq(base, i, Len(base))

\* strings.TrimSuffix
TrimSuffix(s, x) == IF HasSuffix(s, x) THEN SubSeq(s, 1, Len(s) - Len(x)) ELSE s

DotXml == <<".", "x", "m", "l">>

\* the mistake of forgetting the backslash
normalizeRunNameNoBackslash(name) ==
    LET n0 == TrimSpace(name)
        n == IF HasSuffix(ToLower(n0), DotXml)
             THEN TrimSpace(TrimSuffix(n0, Ext(n0)))
             ELSE n0
    IN  IF n = <<>> \/ n = <<".">> \/ n = <<".", ".">> THEN [ok |-> FALSE, name |-> <<>>]
        ELSE IF ContainsCh(n, Slash) THEN [ok |-> FALSE, name |-> <<>>]
        ELSE [ok |-> TRUE, name |-> n]

\* normalizeRunName: [ok, name]; no name here holds a NUL
normalizeRunName(name) ==
    LET n0 == TrimSpace(name)
        n == IF HasSuffix(ToLower(n0), DotXml)
             THEN TrimSpace(TrimSuffix(n0, Ext(n0)))
             ELSE n0
    IN  IF n = <<>> \/ n = <<".">> \/ n = <<".", ".">> THEN [ok |-> FALSE, name |-> <<>>]
        ELSE IF ContainsCh(n, Slash) \/ ContainsCh(n, "\\") THEN [ok |-> FALSE, name |-> <<>>]
        ELSE [ok |-> TRUE, name |-> n]

\* ---- DeleteRuns ----
\* strings.TrimSpace on an id
TrimId(id) ==
    CASE id = " " -> ""
      [] id = " a" -> "a"
      [] OTHER -> id

RECURSIVE uniqueFrom(_, _)
uniqueFrom(ids, seen) ==
    IF ids = <<>> THEN <<>>
    ELSE LET id == TrimId(Head(ids))
         IN  IF id = "" \/ id \in seen THEN uniqueFrom(Tail(ids), seen)
             ELSE <<id>> \o uniqueFrom(Tail(ids), seen \cup {id})

uniqueNonEmptyStrings(ids) == uniqueFrom(ids, {})

\* the run files of the ids the catalog knows, in the order of ids
RECURSIVE runFilesOf(_, _)
runFilesOf(cat, ids) ==
    IF ids = <<>> THEN <<>>
    ELSE IF Head(ids) \in cat THEN <<AbsOf(Head(ids))>> \o runFilesOf(cat, Tail(ids))
    ELSE runFilesOf(cat, Tail(ids))

\* the loop of DeleteRuns over runFiles: [disk, err, deleted]
RECURSIVE deleteLoop(_, _, _, _)
deleteLoop(d, rootReal, files, deleted) ==
    IF files = <<>> THEN [disk |-> d, err |-> "", deleted |-> deleted]
    ELSE LET fileReal == RealOrAbs(d, Head(files))
             dirReal == Dir(fileReal)
         IN  IF ~isSubpath(rootReal, dirReal)
             THEN [disk |-> d, err |-> "outside root", deleted |-> deleted]
             ELSE IF samePath(rootReal, dirReal)
                  THEN IF ~isSubpath(rootReal, fileReal)
                       THEN [disk |-> d, err |-> "outside root", deleted |-> deleted]
                       ELSE IF \E o \in d : o.path = fileReal
                            THEN deleteLoop({o \in d : o.path # fileReal}, rootReal,
                                            Tail(files), deleted + 1)
                            ELSE deleteLoop(d, rootReal, Tail(files), deleted)
                  ELSE deleteLoop(RemoveAll(d, dirReal), rootReal, Tail(files), deleted + 1)

\* DeleteRuns(ids): [disk, err, deleted, looked]
deleteRuns(d, cat, ids) ==
    LET u == uniqueNonEmptyStrings(ids)
    IN  IF u = <<>> THEN [disk |-> d, err |-> "", deleted |-> 0, looked |-> FALSE]
        ELSE LET r == deleteLoop(d, RealOrAbs(d, rootAbs), runFilesOf(cat, u), 0)
             IN  [disk |-> r.disk, err |-> r.err, deleted |-> r.deleted, looked |-> TRUE]

\* ---- RenameRun ----
\* RenameRun(id, newName): [disk, err, looked]
renameRun(d, cat, id0, newName) ==
    LET id == TrimId(id0)
        norm == normalizeRunName(newName)
        rootReal == RealOrAbs(d, rootAbs)
        fileReal == RealOrAbs(d, AbsOf(id))
        dirReal == Dir(fileReal)
        targetFile == JoinPath(rootReal, norm.name \o DotXml)
        parentDir == Dir(dirReal)
        targetDir == JoinPath(parentDir, norm.name)
        Ret(disk, err, looked) == [disk |-> disk, err |-> err, looked |-> looked]
    IN  IF id = "" THEN Ret(d, "run id required", FALSE)
        ELSE IF ~norm.ok THEN Ret(d, "invalid run name", FALSE)
        ELSE IF id \notin cat THEN Ret(d, "run not found", TRUE)
        ELSE IF ~isSubpath(rootReal, dirReal) THEN Ret(d, "outside root", TRUE)
        ELSE IF samePath(rootReal, dirReal)
             THEN IF samePath(fileReal, targetFile) THEN Ret(d, "", TRUE)
                  ELSE IF ~isSubpath(rootReal, targetFile) THEN Ret(d, "outside root", TRUE)
                  ELSE IF StatOK(d, targetFile) THEN Ret(d, "target exists", TRUE)
                  ELSE IF ~LstatOK(d, fileReal) THEN Ret(d, "rename failed", TRUE)
                  ELSE Ret(Rename(d, fileReal, targetFile), "", TRUE)
             ELSE IF samePath(dirReal, targetDir) THEN Ret(d, "", TRUE)
                  ELSE IF ~isSubpath(rootReal, parentDir) \/ ~isSubpath(rootReal, targetDir)
                       THEN Ret(d, "outside root", TRUE)
                  ELSE IF StatOK(d, targetDir) THEN Ret(d, "target exists", TRUE)
                  ELSE IF ~LstatOK(d, dirReal) THEN Ret(d, "rename failed", TRUE)
                  ELSE Ret(Rename(d, dirReal, targetDir), "", TRUE)

\* ---- inputs ----
MaxDeleteIds == 2

MaxName == 2

IdTokens == RunIds \cup {"z", "", " ", " a"}

NameLetters == {"n", "b", "k", ".", Slash, "\\", Space}

NameEndings == {<<>>, DotXml, <<".", "X", "M", "L">>, DotXml \o <<Space>>}

NewNames ==
    {pre \o core \o suf : pre \in {<<>>, <<Space>>},
                          core \in SeqsUpTo(NameLetters, MaxName),
                          suf \in NameEndings}

\* the disk as scanned, or with one report gone since the scan
InitialDisks ==
    {InitialDisk}
    \cup {InitialDisk \ {File(p)} :
             p \in {AbsOf("a"), <<"/", "o", "/", "o", ".", "x", "m", "l">>,
                    <<"/", "r", "x", "/", "k", ".", "x", "m", "l">>}}

InitialCatalogs == {RunIds, {"a", "l"}}

InitPath ==
    /\ DiffIdle
    /\ ParseIdle
    /\ StatIdle
    /\ StoreIdle
    /\ GetIdle
    /\ FindIdle
    /\ RenameIdle
    /\ GoIdle
    /\ WalkIdle
    /\ AttrIdle
    /\ pathFiles \in InitialDisks
    /\ pathRuns \in InitialCatalogs
    /\ pathOut = Nil
    /\ pathOps = 0

DeleteRuns(ids) ==
    /\ pathOps = 0
    /\ LET r == deleteRuns(pathFiles, pathRuns, ids)
       IN  /\ pathFiles' = r.disk
           /\ pathOut' = [op |-> "delete", ids |-> ids, id |-> "", name |-> <<>>,
                          err |-> r.err, deleted |-> r.deleted, looked |-> r.looked]
    /\ pathOps' = pathOps + 1
    /\ UNCHANGED pathRuns
    /\ UNCHANGED nonPathVars

RenameRun(id, newName) ==
    /\ pathOps = 0
    /\ LET r == renameRun(pathFiles, pathRuns, id, newName)
       IN  /\ pathFiles' = r.disk
           /\ pathOut' = [op |-> "rename", ids |-> <<>>, id |-> id, name |-> newName,
                          err |-> r.err, deleted |-> 0, looked |-> r.looked]
    /\ pathOps' = pathOps + 1
    /\ UNCHANGED pathRuns
    /\ UNCHANGED nonPathVars

NextPath ==
    \/ \E ids \in SeqsUpTo(IdTokens, MaxDeleteIds) : DeleteRuns(ids)
    \/ \E id \in IdTokens, newName \in NewNames : RenameRun(id, newName)

SpecPath == InitPath /\ [][NextPath]_vars

\* ---- properties of DeleteRuns and RenameRun ----
\* dir is root or lies inside it
Within(root, dir) ==
    \/ dir = root
    \/ Len(dir) > Len(root) /\ SubSeq(dir, 1, Len(root)) = root /\ dir[Len(root) + 1] = Slash

\* the catalog holds id, and the directory its file really lies in is neither
\* the real root nor inside it
Escapes(d, cat, id) ==
    /\ id \in cat
    /\ EvalSymlinks(d, AbsOf(id)).ok
    /\ ~Within(RealOrAbs(d, rootAbs), Dir(EvalSymlinks(d, AbsOf(id)).path))

\* the step is a call of DeleteRuns / RenameRun
DeleteStep == pathOps' = pathOps + 1 /\ pathOut'.op = "delete"

RenameStep == pathOps' = pathOps + 1 /\ pathOut'.op = "rename"

IdsOf(ids) == {TrimId(ids[i]) : i \in 1..Len(ids)}

\* RenameRun on an escaping run fails and changes nothing on disk
RenameRefusesEscape ==
    RenameStep /\ Escapes(pathFiles, pathRuns, TrimId(pathOut'.id))
        => pathOut'.err # "" /\ pathFiles' = pathFiles

\* DeleteRuns with an escaping run among its ids fails and removes nothing
DeleteRefusesEscape ==
    DeleteStep /\ (\E id \in IdsOf(pathOut'.ids) : Escapes(pathFiles, pathRuns, id))
        => pathOut'.err # "" /\ pathFiles' = pathFiles

\* C11 (as claimed): DeleteRuns and RenameRun on a run whose real directory is
\* neither the real root nor inside it return an error and leave the disk
\* untouched, and a DeleteRuns with several ids removes nothing at all when
\* any of its runs fails the containment check
C11_PathSafety == [][RenameRefusesEscape /\ DeleteRefusesEscape]_vars

\* what does hold: both calls fail on an escaping run, and neither ever
\* changes anything outside the real root
EscapeIsRefused ==
    [][/\ RenameRefusesEscape
       /\ DeleteStep /\ (\E id \in IdsOf(pathOut'.ids) : Escapes(pathFiles, pathRuns, id))
             => pathOut'.err # ""
       /\ {o \in pathFiles : ~Within(RealOrAbs(pathFiles, rootAbs), o.path)}
             = {o \in pathFiles' : ~Within(RealOrAbs(pathFiles, rootAbs), o.path)}]_vars

(***************************************************************************)
(* Test lookup of GetTestDetails (store.go).                               *)
(*                                                                         *)
(* A *Test is the place of the test in the tree: the indices of the        *)
(* sub-suites that lead from the root to its suite, and its index among    *)
(* that suite's tests.                                                     *)
(***************************************************************************)
\* &suite.Tests[i] of the suite reached by the sub-suite indices at
TestAt(at, i) == [suite |-> at, test |-> i]

\* strings.EqualFold on the letters of the model
EqualFold(a, b) == ToLower(a) = ToLower(b)

\* the least index of a non-empty set of indices: the first hit of a range loop
FirstOf(hits) == CHOOSE i \in hits : \A j \in hits : i <= j

RECURSIVE findTestInSuite(_, _, _)
RECURSIVE findTestInSuites(_, _, _, _)
\* findTestInSuite on the suite reached by at
findTestInSuite(suite, testName, at) ==
    LET hits == { i \in 1..Len(suite.Tests) : EqualFold(suite.Tests[i].Name, testName) }
    IN  IF hits # {} THEN TestAt(at, FirstOf(hits))
        ELSE findTestInSuites(suite.Suites, 1, testName, at)

\* the second loop of findTestInSuite, from sub-suite i on
findTestInSuites(suites, i, testName, at) ==
    IF i > Len(suites) THEN Nil
    ELSE LET test == findTestInSuite(suites[i], testName, Append(at, i))
         IN  IF test # Nil THEN test
             ELSE findTestInSuites(suites, i + 1, testName, at)

RECURSIVE findTestInSuiteByFullName(_, _, _, _)
RECURSIVE findTestInSuitesByFullName(_, _, _, _, _)
\* findTestInSuiteByFullName on the suite reached by at
findTestInSuiteByFullName(suite, fullName, prefix, at) ==
    LET current == IF prefix # <<>> THEN prefix \o <<Dot>> \o suite.Name ELSE suite.Name
        hits == { i \in 1..Len(suite.Tests) :
                    EqualFold(current \o <<Dot>> \o suite.Tests[i].Name, fullName) }
    IN  IF hits # {} THEN TestAt(at, FirstOf(hits))
        ELSE findTestInSuitesByFullName(suite.Suites, 1, fullName, current, at)

\* the second loop of findTestInSuiteByFullName, from sub-suite i on
findTestInSuitesByFullName(suites, i, fullName, current, at) ==
    IF i > Len(suites) THEN Nil
    ELSE LET test == findTestInSuiteByFullName(suites[i], fullName, current, Append(at, i))
         IN  IF test # Nil THEN test
             ELSE findTestInSuitesByFullName(suites, i + 1, fullName, current, at)

\* a lookup that never tries the full dotted name
findTestBareOnly(robot, testName) == findTestInSuite(robot.Suite, testName, <<>>)

\* the search of GetTestDetails in the cached tree: Nil when nothing matches
findTest(robot, testName) ==
    LET byFullName == IF ContainsDot(testName)
                      THEN findTestInSuiteByFullName(robot.Suite, testName, <<>>, <<>>)
                      ELSE Nil
    IN  IF byFullName # Nil THEN byFullName
        ELSE findTestInSuite(robot.Suite, testName, <<>>)


(***************************************************************************)
(* Calls into the store under a request deadline (store.go): GetRuns,      *)
(* GetTestDetails and RunFilePath on a catalog in any state a scan, a      *)
(* hydration or an earlier call can leave behind, next to the destructive  *)
(* calls on the run directory.                                             *)
(***************************************************************************)
NamedTest(name) == [Name |-> name, Status |-> "PASS"]

\* the tree xml.Unmarshal yields for the report written at time v
RobotOf(v) ==
    IF v = 1
    THEN [Suite |-> MkSuite(<<"a">>, <<>>, << NamedTest(<<"b">>) >>)]
    ELSE [Suite |-> MkSuite(<<"a">>,
                            << MkSuite(<<"c">>, <<>>, << NamedTest(<<"b">>) >>) >>,
                            << NamedTest(<<"c">>) >>)]

\* GetTestDetails: [heap, err, started, test]
getTestDetails(h, id, testName, e) ==
    IF runs[id] = 0
    THEN [heap |-> h, err |-> "run not found", started |-> 0, test |-> Nil,
          interrupted |-> FALSE]
    ELSE LET r == ensureRobotLoadedLocked(h[id][runs[id]], fs[h[id][runs[id]].abs], 0, e)
             st == IF r.started THEN 1 ELSE 0
         IN  IF r.err # ""
             THEN [heap |-> h, err |-> r.err, started |-> st, test |-> Nil,
                   interrupted |-> r.err = "deadline" /\ r.started]
             ELSE LET test == findTest(RobotOf(r.entry.robot), testName)
                  IN  [heap |-> [h EXCEPT ![id][runs[id]] = r.entry],
                       err |-> IF test # Nil THEN "" ELSE "test not found",
                       started |-> st,
                       test |-> test,
                       interrupted |-> FALSE]

\* the reports a run file can hold, and whether it is there
FileStates ==
    { [exists |-> FALSE, mtime |-> 1, aux |-> 0] }
    \cup { [exists |-> TRUE, mtime |-> m, aux |-> 0] : m \in 1..2 }

\* the entries a scan (NewEntry) and a hydration (Hydrated) leave for a path
EntryStates(abs) ==
    LET seen == { f \in FileStates : f.exists }
    IN  { NewEntry(abs, f) : f \in seen }
        \cup { Hydrated(NewEntry(abs, f), [ModTime |-> f.mtime, Size |-> XmlSize(f)], f.mtime) :
                  f \in seen }

\* names asked of GetTestDetails: a bare name, a full dotted name, no test's name
AskedNames == { <<"b">>, <<"a", ".", "b">>, <<"b", ".", "b">> }

\* the ids and names handed to the destructive calls next to the reads
AskedDeletes == { <<"a">>, <<"z">>, <<"a", "z">> }
AskedRenames == { <<"a", <<"n">>>>, <<"z", <<"n">>>>, <<"z", <<>>>> }

InitGet ==
    /\ DiffIdle
    /\ ParseIdle
    /\ StatIdle
    /\ FindIdle
    /\ RenameIdle
    /\ GoIdle
    /\ WalkIdle
    /\ AttrIdle
    /\ fs \in [Paths -> FileStates]
    /\ \E known \in SUBSET Paths :
          /\ runs = [id \in Paths |-> IF id \in known THEN 1 ELSE 0]
          /\ \E en \in [Paths -> UNION { EntryStates(p) : p \in Paths }] :
                /\ \A p \in Paths : en[p] \in EntryStates(p)
                /\ heap = [id \in Paths |-> IF id \in known THEN << en[id] >> ELSE <<>>]
    /\ scan = [s \in Scanners |-> IdleScan]
    /\ fillInProgress = FALSE
    /\ fill = FillOff
    /\ worker = [w \in Workers |-> IdleWorker]
    /\ obs = Nil
    /\ published = Nil
    /\ changed = FALSE
    /\ nScans = 0
    /\ nChanges = 0
    /\ pathFiles = InitialDisk
    /\ pathRuns = RunIds
    /\ pathOut = Nil
    /\ pathOps = 0
    /\ getOut = Nil
    /\ nGets = 0

storeRest == <<fs, runs, scan, fillInProgress, fill, worker, obs, published, changed, nScans, nChanges>>
nonGetStoreVars == <<diffVars, parseVars, statVars, pathVars, findVars, renameVars, attrVars, walkVars, goVars>>

\* GetRuns(ctx, ids) under a deadline that is seen expired from look e on
GetRunsCtx(ids, e) ==
    /\ nGets = 0
    /\ LET r == GetRunsLoop(heap, ids, 1, e, 0)
       IN  /\ heap' = r.heap
           /\ getOut' = [op |-> "GetRuns", ids |-> ids, name |-> <<>>, e |-> e, err |-> r.err,
                         n |-> r.n, started |-> r.started, test |-> Nil,
                         interrupted |-> r.interrupted]
    /\ nGets' = 1
    /\ UNCHANGED storeRest
    /\ UNCHANGED nonGetStoreVars

GetTestDetails(runID, testName, e) ==
    /\ nGets = 0
    /\ LET r == getTestDetails(heap, runID, testName, e)
       IN  /\ heap' = r.heap
           /\ getOut' = [op |-> "GetTestDetails", ids |-> <<runID>>, name |-> testName, e |-> e,
                         err |-> r.err, n |-> 0, started |-> r.started, test |-> r.test,
                         interrupted |-> r.interrupted]
    /\ nGets' = 1
    /\ UNCHANGED storeRest
    /\ UNCHANGED nonGetStoreVars

RunFilePath(runID) ==
    /\ nGets = 0
    /\ getOut' = [op |-> "RunFilePath", ids |-> <<runID>>, name |-> <<>>, e |-> 0,
                  err |-> IF runs[runID] = 0 THEN "run not found" ELSE "",
                  n |-> 0, started |-> 0, test |-> Nil, interrupted |-> FALSE]
    /\ nGets' = 1
    /\ UNCHANGED heap
    /\ UNCHANGED storeRest
    /\ UNCHANGED nonGetStoreVars

NextGet ==
    \/ \E ids \in SeqsUpTo(Paths, MaxIds), e \in 1..NoDeadline(MaxIds) : GetRunsCtx(ids, e)
    \/ \E id \in Paths, name \in AskedNames, e \in 1..NoDeadline(1) : GetTestDetails(id, name, e)
    \/ \E id \in Paths : RunFilePath(id)
    \/ \E ids \in AskedDeletes : DeleteRuns(ids)
    \/ \E a \in AskedRenames : RenameRun(a[1], a[2])

SpecGet == InitGet /\ [][NextGet]_vars

(***************************************************************************)
(* Properties of the calls under a deadline.                               *)
(***************************************************************************)
\* the call that has returned was op, made with ids all in the catalog
ReturnedKnown(op) ==
    /\ getOut # Nil
    /\ getOut.op = op
    /\ Len(getOut.ids) >= 1
    /\ \A i \in 1..Len(getOut.ids) : runs[getOut.ids[i]] # 0

\* the deadline had expired before the call was made
AlreadyExpired == getOut.e = 1

\* C12: GetRuns (with at least one id) and GetTestDetails, called for known
\* run ids with a deadline that has already expired, return a timeout error
\* without starting a parse, whatever the state of the entry.
C12_ExpiredDeadline ==
    \A op \in {"GetRuns", "GetTestDetails"} :
        (ReturnedKnown(op) /\ AlreadyExpired) =>
            (getOut.err = "deadline" /\ getOut.started = 0)

\* the part of C12 that is about GetRuns only
ExpiredGetRunsTimesOut ==
    (ReturnedKnown("GetRuns") /\ AlreadyExpired) =>
        (getOut.err = "deadline" /\ getOut.started = 0)

\* no call made after the deadline starts a parse
ExpiredStartsNoParse ==
    (getOut # Nil /\ getOut.op \in {"GetRuns", "GetTestDetails"} /\ AlreadyExpired) =>
        getOut.started = 0

\* C13: whenever GetRuns or GetTestDetails returns a timeout error the store
\* is exactly as it was before the call, entries of the ids that precede the
\* timed-out one included.
C13_TimeoutLeavesStore ==
    [][ (getOut = Nil /\ getOut' # Nil /\ getOut'.err = "deadline")
            => (heap' = heap /\ runs' = runs) ]_vars

\* a timeout of GetTestDetails, and of GetRuns at its first id, leaves the store alone
TimeoutAtFirstLeavesStore ==
    [][ (/\ getOut = Nil /\ getOut' # Nil /\ getOut'.err = "deadline"
         /\ getOut'.e <= NoDeadline(1) - 1)
            => (heap' = heap /\ runs' = runs) ]_vars

\* the read call was given an id the catalog does not hold, after ids whose
\* files can be read, and no deadline expired
GetUnknown ==
    /\ getOut # Nil
    /\ \E i \in 1..Len(getOut.ids) :
          /\ runs[getOut.ids[i]] = 0
          /\ \A j \in 1..(i - 1) : runs[getOut.ids[j]] # 0 /\ fs[getOut.ids[j]].exists
    /\ getOut.op = "RunFilePath" \/ getOut.e = NoDeadline(Len(getOut.ids))

\* GetTestDetails was asked, before any deadline, for a name that no test of
\* the known run's report carries
GetUnmatched ==
    /\ getOut # Nil /\ getOut.op = "GetTestDetails"
    /\ getOut.e = NoDeadline(1)
    /\ LET id == getOut.ids[1]
       IN  /\ runs[id] # 0
           /\ fs[id].exists
           /\ findTestInSuite(RobotOf(fs[id].mtime).Suite, getOut.name, <<>>) = Nil
           /\ findTestInSuiteByFullName(RobotOf(fs[id].mtime).Suite, getOut.name, <<>>, <<>>) = Nil

\* DeleteRuns was given an id the catalog does not hold
DeleteUnknown ==
    /\ pathOut # Nil /\ pathOut.op = "delete"
    /\ \E i \in 1..Len(pathOut.ids) :
          TrimId(pathOut.ids[i]) # "" /\ TrimId(pathOut.ids[i]) \notin pathRuns

\* RenameRun was given a usable name and an id the catalog does not hold
RenameUnknown ==
    /\ pathOut # Nil /\ pathOut.op = "rename"
    /\ normalizeRunName(pathOut.name).ok
    /\ TrimId(pathOut.id) # "" /\ TrimId(pathOut.id) \notin pathRuns

\* the parts of C14 about every call but DeleteRuns
UnknownIsRefusedButByDelete ==
    /\ GetUnknown => getOut.err = "run not found"
    /\ GetUnmatched => getOut.err = "test not found"
    /\ RenameUnknown => pathOut.err = "run not found"

\* C14: GetRuns, GetTestDetails, RunFilePath, RenameRun and DeleteRuns given a
\* run id that is not in the catalog return a run-not-found error, and
\* GetTestDetails given a known run and a name matching no test returns a
\* not-found error; none of them succeeds silently.
C14_UnknownIsRefused ==
    /\ UnknownIsRefusedButByDelete
    /\ DeleteUnknown => pathOut.err = "run not found"

(***************************************************************************)
(* The lookup of GetTestDetails as a function of the cached tree and the   *)
(* name asked for.                                                         *)
(***************************************************************************)
MaxFindTests == 2      \* tests of the root suite
MaxFindSuites == 2     \* sub-suites of the root suite

\* names of suites and tests: plain, spelled in the other case, holding a
\* separator, and empty (a suite element without name attribute)
FindRootNames == { <<"a">>, <<"A">>, <<>> }
FindTestNames == { <<"b">>, <<"B">>, <<"a", ".", "b">>, <<"c", ".", "b">> }
FindSubSuites ==
    { MkSuite(<<"c">>, <<>>, << NamedTest(<<"b">>) >>),
      MkSuite(<<"c">>, << MkSuite(<<"b">>, <<>>, << NamedTest(<<"b">>) >>) >>, <<>>) }

FindTrees ==
    { [Suite |-> MkSuite(n, subs, [i \in 1..Len(ts) |-> NamedTest(ts[i])])] :
        n \in FindRootNames,
        subs \in SeqsUpTo(FindSubSuites, MaxFindSuites),
        ts \in SeqsUpTo(FindTestNames, MaxFindTests) }

FindNames ==
    { <<"b">>, <<"a", ".", "b">>, <<"c", ".", "b">>, <<"a", ".", "c", ".", "b">>,
      <<".", "c", ".", "b">>, <<".", "b">>, <<"c", ".", "b", ".", "b">>, <<"c">> }

InitFind ==
    /\ DiffIdle
    /\ ParseIdle
    /\ StatIdle
    /\ StoreIdle
    /\ PathIdle
    /\ GetIdle
    /\ findIn \in { [robot |-> r, testName |-> n] : r \in FindTrees, n \in FindNames }
    /\ findOut = Nil
    /\ fpc = "asked"
    /\ RenameIdle
    /\ GoIdle
    /\ WalkIdle
    /\ AttrIdle

\* the search of GetTestDetails on the tree the entry caches
FindTest ==
    /\ fpc = "asked"
    /\ findOut' = findTest(findIn.robot, findIn.testName)
    /\ fpc' = "answered"
    /\ UNCHANGED findIn
    /\ UNCHANGED nonFindVars

NextFind == FindTest

SpecFind == InitFind /\ [][NextFind]_vars

(***************************************************************************)
(* Properties of the lookup.                                               *)
(***************************************************************************)
\* the tests of a tree in depth-first order, a suite's own tests before its
\* sub-suites: each with its place, the names of the suites from the root
\* down to its suite, and its own name
RECURSIVE TestsInOrder(_, _, _)
RECURSIVE TestsOfSuitesInOrder(_, _, _, _)
TestsInOrder(suite, at, parents) ==
    [i \in 1..Len(suite.Tests) |->
        [at |-> TestAt(at, i), suites |-> Append(parents, suite.Name),
         bare |-> suite.Tests[i].Name]]
    \o TestsOfSuitesInOrder(suite.Suites, 1, at, Append(parents, suite.Name))

TestsOfSuitesInOrder(suites, i, at, parents) ==
    IF i > Len(suites) THEN <<>>
    ELSE TestsInOrder(suites[i], Append(at, i), parents)
         \o TestsOfSuitesInOrder(suites, i + 1, at, parents)

RECURSIVE JoinDots(_)
JoinDots(names) ==
    IF names = <<>> THEN <<>>
    ELSE IF Len(names) = 1 THEN names[1]
    ELSE names[1] \o <<Dot>> \o JoinDots(Tail(names))

RECURSIVE DropLeadingEmpty(_)
DropLeadingEmpty(names) ==
    IF names # <<>> /\ names[1] = <<>> THEN DropLeadingEmpty(Tail(names)) ELSE names

\* root suite name, nested suite names and test name joined by "."
JoinedFullName(t) == JoinDots(Append(t.suites, t.bare))

\* the same with the empty suite names at the root end left out
RootedFullName(t) == JoinDots(DropLeadingEmpty(t.suites)) \o <<Dot>> \o t.bare

\* the test the lookup is to return when FullName names the tests: the first
\* full-name match of a name holding ".", else the first bare-name match
Looked(FullName(_)) ==
    LET ts == TestsInOrder(findIn.robot.Suite, <<>>, <<>>)
        byFull == { i \in 1..Len(ts) :
                      ContainsDot(findIn.testName) /\ EqualFold(FullName(ts[i]), findIn.testName) }
        byBare == { i \in 1..Len(ts) : EqualFold(ts[i].bare, findIn.testName) }
    IN  IF byFull # {} THEN ts[FirstOf(byFull)].at
        ELSE IF byBare # {} THEN ts[FirstOf(byBare)].at
        ELSE Nil

\* C15: if testName contains "." and some test's full dotted name (root suite
\* name, nested suite names, test name joined by ".") equals it
\* case-insensitively, the first such test in depth-first order is returned
\* even when another test's bare name matches; otherwise the first test
\* whose bare name matches; otherwise the call fails.
C15_FullNameFirst ==
    fpc = "answered" => findOut = Looked(JoinedFullName)

\* C15 with the full dotted name as the lookup builds it: the suite names
\* from the root down, empty names at the root end left out, joined by ".",
\* then "." and the test name
C15_RootedFullNameFirst ==
    fpc = "answered" => findOut = Looked(RootedFullName)

\* a test is returned for its full name though an earlier test carries the
\* asked name as its bare name
C15_Witness ==
    /\ fpc = "answered"
    /\ LET ts == TestsInOrder(findIn.robot.Suite, <<>>, <<>>)
       IN  \E i, j \in 1..Len(ts) :
              /\ i < j
              /\ EqualFold(ts[i].bare, findIn.testName)
              /\ EqualFold(RootedFullName(ts[j]), findIn.testName)
              /\ findOut = ts[j].at

\* the new name after trimming whitespace and one trailing .xml extension
\* (in either case, with the whitespace before it)
TrimmedName(name) ==
    LET t == TrimSpace(name)
    IN  IF Len(t) >= 4 /\ ToLower(SubSeq(t, Len(t) - 3, Len(t))) = DotXml
        THEN TrimSpace(SubSeq(t, 1, Len(t) - 4))
        ELSE t

\* the names RenameRun is to refuse
BadName(name) ==
    \/ TrimmedName(name) \in { <<>>, <<".">>, <<".", ".">> }
    \/ ContainsCh(TrimmedName(name), Slash)
    \/ ContainsCh(TrimmedName(name), "\\")

\* C16: RenameRun returns an error, changing neither the file system nor the
\* catalog, whenever the new name (after trimming whitespace and one
\* trailing .xml) is empty, ".", ".." or contains "/" or "\"; the check is
\* made before the run id is looked up.
C16_BadNameRefused ==
    [][ (pathOut = Nil /\ pathOut' # Nil /\ pathOut'.op = "rename" /\ BadName(pathOut'.name))
            => /\ pathOut'.err # ""
               /\ ~pathOut'.looked
               /\ pathFiles' = pathFiles
               /\ pathRuns' = pathRuns ]_vars

\* a name holding a backslash and no slash, given for a run that could be
\* renamed, is refused
C16_Witness ==
    /\ pathOut # Nil /\ pathOut.op = "rename"
    /\ TrimId(pathOut.id) = "b" /\ "b" \in pathRuns
    /\ LstatOK(pathFiles, AbsOf("b"))
    /\ ContainsCh(pathOut.name, "\\")
    /\ ~ContainsCh(pathOut.name, Slash)
    /\ pathOut.err = "invalid run name"

\* C17: RenameRun does not touch the catalog, so right after a successful
\* rename the catalog may still list the run under its old path; once the
\* next scanOnce has completed (a scan that saw the directory as the rename
\* left it), the catalog holds no entry for the old path and one entry for
\* the renamed path, under the id derived from the new path.
C17_RenameThenScan ==
    [][ /\ (renamed' # renamed) => (runs' = runs /\ heap' = heap)
        /\ \A s \in Scanners :
              ( /\ SwapBy(s) /\ ~scan[s].dirty
                /\ renamed # Nil
                /\ ~fs[renamed.old].exists /\ fs[renamed.new].exists )
              => /\ runs'[renamed.old] = 0
                 /\ runs'[renamed.new] # 0
                 /\ heap'[stableID(renamed.new)][runs'[stableID(renamed.new)]].abs = renamed.new
                 /\ \A id \in Paths \ {stableID(renamed.new)} :
                       runs'[id] # 0 => heap'[id][runs'[id]].abs # renamed.new ]_vars

\* the catalog still lists the old path of a renamed run and not its new one
StaleAfterRename ==
    /\ renamed # Nil
    /\ ~fs[renamed.old].exists /\ fs[renamed.new].exists
    /\ runs[renamed.old] # 0 /\ runs[renamed.new] = 0

\* a scan made after the rename has put the renamed run under its new id
C17_Witness ==
    /\ renamed # Nil
    /\ ~fs[renamed.old].exists /\ fs[renamed.new].exists
    /\ published # Nil /\ runs = published
    /\ runs[renamed.old] = 0 /\ runs[renamed.new] # 0

\* the executions of scanOnce between their snapshot of s.runs and their swap
ScansInProgress == { s \in Scanners : scan[s].pc = "walk" }

\* C19: no two executions of scanOnce are in progress at the same time on
\* one store: between a scan's snapshot of the previous catalog and its swap
\* of the new map no other scan takes a snapshot or performs a swap, whoever
\* calls the scan (scanLoop or the ScanOnce of the delete handler).
C19_ScansNeverOverlap == Cardinality(ScansInProgress) <= 1

(***************************************************************************)
(* The store with its scan loop running for ever (store.go: scanLoop,      *)
(* startBackgroundFill, hydrateRun): the timer keeps firing, the goroutines *)
(* of scan, fill and workers keep being scheduled, the directory changes   *)
(* at most MaxFsChanges times and readers come and go as they please.      *)
(***************************************************************************)
\* scanLoop: a tick of the timer, with no bound on the number of ticks
LoopScanTick ==
    /\ scan["loop"].pc = "idle"
    /\ UNCHANGED nScans
    /\ Snapshot("loop")

NextLoop ==
    \/ \E f \in Paths : EnvTouch(f)
    \/ \E f \in Paths : EnvResize(f)
    \/ \E f \in Paths : EnvCreate(f)
    \/ LoopScanTick
    \/ \E s \in Scanners : ScanFile(s)
    \/ \E s \in Scanners : ScanSwap(s)
    \/ \E s \in Scanners : StartBackgroundFill(s)
    \/ FillCollect
    \/ \E w \in Workers, id \in Paths : FillFeed(w, id)
    \/ \E w \in Workers : HydrateStat(w)
    \/ \E w \in Workers : HydrateParse(w)
    \/ \E w \in Workers : HydrateCommit(w)
    \/ FillDone
    \/ \E id \in Paths : GetRuns(<<id>>)

\* the Go scheduler runs every goroutine that can run, and the ticker fires
FairLoop ==
    /\ WF_vars(LoopScanTick)
    /\ \A s \in Scanners : WF_vars(ScanFile(s)) /\ WF_vars(ScanSwap(s))
                           /\ WF_vars(StartBackgroundFill(s))
    /\ WF_vars(FillCollect)
    /\ \A w \in Workers : /\ WF_vars(\E id \in Paths : FillFeed(w, id))
                          /\ WF_vars(HydrateStat(w))
                          /\ WF_vars(HydrateParse(w))
                          /\ WF_vars(HydrateCommit(w))
    /\ WF_vars(FillDone)

SpecLoop == InitStore /\ [][NextLoop]_vars /\ FairLoop

\* the entry s.runs holds for id
EntryOf(id) == heap[id][runs[id]]

\* the Hydrated state of the entry of id: tree set, both flags false
IsHydrated(id) ==
    /\ runs[id] # 0
    /\ EntryOf(id).robot # 0
    /\ ~EntryOf(id).statsIncomplete
    /\ ~EntryOf(id).durationIncomplete

\* the entry of id was discovered with an incomplete flag, its file being v
DiscoveredIncomplete(id, v) ==
    /\ fs[id] = v
    /\ fs[id].exists
    /\ runs[id] # 0
    /\ Incomplete(EntryOf(id))

\* the states a report and its folder take
ReportStates ==
    { [exists |-> TRUE, mtime |-> m, aux |-> a] : m \in 1..(1 + MaxFsChanges), a \in 0..1 }

\* C18: under fair scheduling with the scan loop running, every entry
\* discovered with an incomplete flag whose file stays unchanged (and
\* parseable) eventually reaches the Hydrated state, through the background
\* fill or through GetRuns, also when the scan that discovered it had its
\* startBackgroundFill skipped because a pass was in progress.
C18_EventuallyHydrated ==
    \A id \in Paths : \A v \in ReportStates :
        DiscoveredIncomplete(id, v) ~> (IsHydrated(id) \/ fs[id] # v)

\* a run that appeared after the first scan has been hydrated, like the
\* run found by the first scan, and no reader has called GetRuns
C18_Witness ==
    /\ obs = Nil
    /\ \A id \in Paths : IsHydrated(id) /\ fs[id].exists
    /\ \A id \in Paths : EntryOf(id).robotModTime = fs[id].mtime

\* a scan returns without starting a pass, one being in progress that did
\* not collect the incomplete entry this scan leaves in the catalog
FillSkippedWithIncomplete ==
    \E s \in Scanners, id \in Paths :
        /\ scan[s].pc = "fill" /\ fillInProgress
        /\ runs[id] # 0 /\ Incomplete(EntryOf(id))
        /\ fill.pc = "feed" /\ id \notin fill.jobs
        /\ \A w \in Workers : worker[w].id # id

\* C20: at most one background hydration pass is active per store: a
\* startBackgroundFill call made while fillInProgress is set starts
\* nothing, fillInProgress is cleared only after the jobs are all handed
\* out and every worker of the pass has returned, and that always
\* eventually happens.
C20_OnePassAtATime ==
    /\ [](fill.passes <= 1 /\ (fillInProgress <=> fill.passes = 1))
    /\ [][ /\ \A s \in Scanners :
                (scan[s].pc = "fill" /\ scan'[s].pc = "idle" /\ fillInProgress)
                    => UNCHANGED <<fillInProgress, fill, worker>>
           /\ (fillInProgress /\ ~fillInProgress')
                    => (fill.jobs = {} /\ \A w \in Workers : worker[w].pc = "idle") ]_vars
    /\ (fillInProgress ~> ~fillInProgress)

\* a start was skipped while the workers of the pass in progress were busy
C20_Witness ==
    \E s \in Scanners, w \in Workers :
        /\ scan[s].pc = "fill"
        /\ fillInProgress /\ fill.passes = 1
        /\ worker[w].pc # "idle"

\* symlink resolution of the file of cataloged run id, or of the root, fails
Unresolved(d, cat, id) ==
    /\ id \in cat
    /\ ~EvalSymlinks(d, AbsOf(id)).ok \/ ~EvalSymlinks(d, rootAbs).ok

\* C24: DeleteRuns and RenameRun refuse (return an error and issue no remove
\* or rename) whenever symlink resolution of the root or of the run file
\* fails, instead of going on with the unresolved path.
C24_UnresolvedIsRefused ==
    [][ /\ (DeleteStep /\ \E id \in IdsOf(pathOut'.ids) : Unresolved(pathFiles, pathRuns, id))
              => (pathOut'.err # "" /\ pathOut'.deleted = 0 /\ pathFiles' = pathFiles)
        /\ (RenameStep /\ normalizeRunName(pathOut'.name).ok
                       /\ Unresolved(pathFiles, pathRuns, TrimId(pathOut'.id)))
              => (pathOut'.err # "" /\ pathFiles' = pathFiles) ]_vars

\* the path RenameRun moves for run id (its file when the file lies directly
\* under the root, else its folder) and the path it moves it to
RenameSource(d, id) ==
    LET fileReal == RealOrAbs(d, AbsOf(id))
    IN  IF Dir(fileReal) = RealOrAbs(d, rootAbs) THEN fileReal ELSE Dir(fileReal)

RenameTarget(d, id, name) ==
    LET fileReal == RealOrAbs(d, AbsOf(id))
    IN  IF Dir(fileReal) = RealOrAbs(d, rootAbs)
        THEN JoinPath(RealOrAbs(d, rootAbs), name \o DotXml)
        ELSE JoinPath(Dir(Dir(fileReal)), name)

\* C30: RenameRun never replaces an existing file or folder: if the target
\* path (root/<name>.xml for a run directly under the root, parent/<name>
\* for a nested run) exists and is not the run's own path, it returns an
\* error and changes nothing on disk; if the target is the run's current
\* path it returns success without any change.
C30_NeverReplaces ==
    [][ (RenameStep /\ normalizeRunName(pathOut'.name).ok /\ TrimId(pathOut'.id) \in pathRuns) =>
          LET id == TrimId(pathOut'.id)
              src == RenameSource(pathFiles, id)
              tgt == RenameTarget(pathFiles, id, normalizeRunName(pathOut'.name).name)
          IN  /\ (LstatOK(pathFiles, tgt) /\ tgt # src)
                    => (pathOut'.err # "" /\ pathFiles' = pathFiles)
              /\ (tgt = src /\ Within(RealOrAbs(pathFiles, rootAbs), Dir(src)))
                    => (pathOut'.err = "" /\ pathFiles' = pathFiles) ]_vars

\* what holds: a target that os.Stat finds is never replaced
StatFoundTargetIsKept ==
    [][ (RenameStep /\ normalizeRunName(pathOut'.name).ok /\ TrimId(pathOut'.id) \in pathRuns) =>
          LET id == TrimId(pathOut'.id)
              src == RenameSource(pathFiles, id)
              tgt == RenameTarget(pathFiles, id, normalizeRunName(pathOut'.name).name)
          IN  /\ (StatOK(pathFiles, tgt) /\ tgt # src)
                    => (pathOut'.err # "" /\ pathFiles' = pathFiles)
              /\ (tgt = src /\ Within(RealOrAbs(pathFiles, rootAbs), Dir(src)))
                    => (pathOut'.err = "" /\ pathFiles' = pathFiles) ]_vars

\* the report file of run id is on disk
ReportExists(d, id) == \E o \in d : o.target = <<>> /\ o.path = RealOrAbs(d, AbsOf(id))

\* C27: DeleteRuns(ids) removes the report file of no cataloged run whose id
\* is not in ids: a run stored in the folder of a requested run, or in a
\* sub-folder of it, still exists after the call.
C27_OthersSurvive ==
    [][ DeleteStep =>
          \A id \in pathRuns \ IdsOf(pathOut'.ids) :
              ReportExists(pathFiles, id) =>
                  \E o \in pathFiles' : o.target = <<>> /\ o.path = RealOrAbs(pathFiles, AbsOf(id)) ]_vars

\* what holds: the report of a run that was not requested survives unless
\* it lies in or beneath the folder of a requested nested run
OthersOutsideSurvive ==
    [][ DeleteStep =>
          \A id \in pathRuns \ IdsOf(pathOut'.ids) :
              ( /\ ReportExists(pathFiles, id)
                /\ \A r \in IdsOf(pathOut'.ids) \cap pathRuns :
                      ~Beneath(RealOrAbs(pathFiles, AbsOf(id)), Dir(RealOrAbs(pathFiles, AbsOf(r)))) )
              => \E o \in pathFiles' : o.target = <<>> /\ o.path = RealOrAbs(pathFiles, AbsOf(id)) ]_vars

\* ---- scans of a directory whose report files may fail to open or read ----

\* scanLoop's scans over a directory in which a listed report file may turn
\* out unreadable, with the changes of the files in between
NextScanErr ==
    \/ \E f \in Paths : EnvTouch(f)
    \/ \E f \in Paths : EnvCreate(f)
    \/ LoopScanBegin
    \/ \E s \in Scanners : ScanFile(s)
    \/ \E s \in Scanners, at \in ScanFailures : ScanFileFails(s, at)
    \/ \E s \in Scanners : ScanSwap(s)
    \/ \E s \in Scanners : StartBackgroundFill(s)

SpecScanErr == InitStore /\ [][NextScanErr]_vars

\* a scan swaps its map in after the walk went through every listed file,
\* the failed ones included
FailedAndKnown(s) == {id \in scan[s].failed : scan[s].prev[id] # 0}

SwapKeepsFailed ==
    \A s \in Scanners :
        SwapBy(s) => \A id \in FailedAndKnown(s) : runs'[id] = scan[s].prev[id]

\* C21: when a report file that had an entry in the previous catalog cannot
\* be probed, stat'ed or read during a scan, the scan goes on and the catalog
\* it swaps in still holds that file's previous entry
C21_FailedFileKeepsEntry == [][SwapKeepsFailed]_vars

\* ---- a deadline that expires while the decode runs ----

\* the read call returned a timeout
TimedOut == getOut # Nil /\ getOut.err = "deadline"

\* the deadline had expired when ParseRobotXMLFileContext was entered, or at
\* the check GetRuns makes before each id
ExpiredAtBoundary == TimedOut /\ ~getOut.interrupted

\* C22: a deadline that expires after the decode has started does not
\* interrupt the call: GetRuns and GetTestDetails return a timeout only when
\* the deadline had already expired at a call boundary, never while a decode
\* they started is running
C22_DecodeNotInterrupted == TimedOut => ExpiredAtBoundary

\* a deadline that had expired at the boundary is answered by a timeout
\* before any decode of that call is started
BoundaryTimeoutStartsNoDecode ==
    (TimedOut /\ Len(getOut.ids) = 1 /\ ~getOut.interrupted) => getOut.started = 0

\* ---- the commit of hydrateRun against the fingerprint of the entry ----

\* worker w commits the result of its parse to the entry of its id
CommitBy(w) ==
    /\ worker[w].pc = "commit"
    /\ worker'[w].pc = "idle"
    /\ runs[worker[w].id] # 0

\* the tree, its fingerprint, the counts and the duration of entry e come from
\* the version of the file that e.ModTime names
OfOwnVersion(e) ==
    /\ e.robot = e.ModTime
    /\ e.robotModTime = e.ModTime
    /\ e.countsFrom = e.ModTime
    /\ e.durationFrom = e.ModTime

CommitIsOfOwnVersion ==
    \A w \in Workers :
        CommitBy(w) => OfOwnVersion(heap'[worker[w].id][runs[worker[w].id]])

\* C26: after hydrateRun has committed, the tree, robotModTime, the duration
\* and the counts of the entry come from the file version of the entry's own
\* ModTime/Size fingerprint, also when a scan replaced the entry between the
\* parse and the commit
C26_CommitMatchesFingerprint == [][CommitIsOfOwnVersion]_vars

\* what the commit does guarantee: the tree it stores is the one it parsed,
\* and it lands in the entry the catalog holds for the id at that moment
CommitStoresParsedTree ==
    [][ \A w \in Workers :
          CommitBy(w) =>
              heap'[worker[w].id][runs[worker[w].id]].robot = worker[w].robot ]_vars

(***************************************************************************)
(* Attributes of the status and msg elements: Status.UnmarshalXML and      *)
(* Message.UnmarshalXML (backend/diff/robot.go), and the attribute pick of *)
(* readRobotMessageTimes (backend/store/store.go).                         *)
(***************************************************************************)
MaxAttrs == 3

StatusAttrNames == {"status", "starttime", "start", "endtime", "end"}
MsgAttrNames == {"level", "timestamp", "time"}
AttrValues == {"1", "2"}

\* the attribute lists of a well-formed start element: no name twice
AttrLists(names) ==
    { as \in SeqsUpTo([name : names, value : AttrValues], MaxAttrs) :
        \A i, j \in 1..Len(as) : as[i].name = as[j].name => i = j }

\* Status.UnmarshalXML: the loop over start.Attr, from the zero Status
RECURSIVE StatusAttrs(_, _)
StatusAttrs(s, attrs) ==
    IF attrs = <<>> THEN s
    ELSE LET a == Head(attrs)
         IN  StatusAttrs(
               CASE a.name = "status" -> [s EXCEPT !.Status = a.value]
                 [] a.name \in {"starttime", "start"} -> [s EXCEPT !.StartTime = a.value]
                 [] a.name \in {"endtime", "end"} -> [s EXCEPT !.EndTime = a.value]
                 [] OTHER -> s,
               Tail(attrs))

StatusUnmarshalXML(attrs) ==
    StatusAttrs([Status |-> "", StartTime |-> "", EndTime |-> ""], attrs)

\* Message.UnmarshalXML: the loop over start.Attr, from the zero Message
RECURSIVE MessageAttrs(_, _)
MessageAttrs(m, attrs) ==
    IF attrs = <<>> THEN m
    ELSE LET a == Head(attrs)
         IN  MessageAttrs(
               CASE a.name = "level" -> [m EXCEPT !.Level = a.value]
                 [] a.name \in {"timestamp", "time"} -> [m EXCEPT !.Timestamp = a.value]
                 [] OTHER -> m,
               Tail(attrs))

MessageUnmarshalXML(attrs) == MessageAttrs([Level |-> "", Timestamp |-> ""], attrs)

\* readRobotMessageTimes: timeStr of one msg start element; "time" ends the
\* loop, "timestamp" is kept and the loop goes on
RECURSIVE MessageTimeAttr(_, _)
MessageTimeAttr(timeStr, attrs) ==
    IF attrs = <<>> THEN timeStr
    ELSE LET a == Head(attrs)
         IN  IF a.name = "time" THEN a.value
             ELSE MessageTimeAttr(IF a.name = "timestamp" THEN a.value ELSE timeStr,
                                  Tail(attrs))

InitAttr ==
    /\ DiffIdle
    /\ ParseIdle
    /\ StatIdle
    /\ StoreIdle
    /\ PathIdle
    /\ GetIdle
    /\ FindIdle
    /\ RenameIdle
    /\ GoIdle
    /\ WalkIdle
    /\ attrIn \in
         { [elem |-> "status", by |-> "decoder", attrs |-> as] : as \in AttrLists(StatusAttrNames) }
         \cup { [elem |-> "msg", by |-> b, attrs |-> as] :
                  b \in {"decoder", "fast"}, as \in AttrLists(MsgAttrNames) }
    /\ attrOut = Nil
    /\ apc = "asked"

\* xml.Unmarshal reaches a status element
DecodeStatus ==
    /\ apc = "asked"
    /\ attrIn.elem = "status"
    /\ attrOut' = StatusUnmarshalXML(attrIn.attrs)
    /\ apc' = "answered"
    /\ UNCHANGED attrIn
    /\ UNCHANGED nonAttrVars

\* xml.Unmarshal reaches a msg element
DecodeMessage ==
    /\ apc = "asked"
    /\ attrIn.elem = "msg"
    /\ attrIn.by = "decoder"
    /\ attrOut' = MessageUnmarshalXML(attrIn.attrs)
    /\ apc' = "answered"
    /\ UNCHANGED attrIn
    /\ UNCHANGED nonAttrVars

\* readRobotMessageTimes reaches a msg start element
ReadMessageTime ==
    /\ apc = "asked"
    /\ attrIn.elem = "msg"
    /\ attrIn.by = "fast"
    /\ attrOut' = [Timestamp |-> MessageTimeAttr("", attrIn.attrs)]
    /\ apc' = "answered"
    /\ UNCHANGED attrIn
    /\ UNCHANGED nonAttrVars

NextAttr == DecodeStatus \/ DecodeMessage \/ ReadMessageTime

SpecAttr == InitAttr /\ [][NextAttr]_vars

\* the value of the first attribute in document order whose name is one of
\* names, "" when there is none
RECURSIVE FirstMatch(_, _)
FirstMatch(attrs, names) ==
    IF attrs = <<>> THEN ""
    ELSE IF Head(attrs).name \in names THEN Head(attrs).value
         ELSE FirstMatch(Tail(attrs), names)

\* the value of the last such attribute
RECURSIVE LastMatch(_, _)
LastMatch(attrs, names) ==
    IF attrs = <<>> THEN ""
    ELSE LET later == LastMatch(Tail(attrs), names)
         IN  IF later # "" \/ Head(attrs).name \notin names THEN later
             ELSE Head(attrs).value

\* C23: a field that has two historical spellings takes the value of the
\* first matching attribute in document order: StartTime and EndTime of a
\* status element, Timestamp of a msg element (read by the decoder or by
\* readRobotMessageTimes); later matching attributes do not overwrite it
C23_FirstMatchWins ==
    apc = "answered" =>
        IF attrIn.elem = "status"
        THEN /\ attrOut.StartTime = FirstMatch(attrIn.attrs, {"starttime", "start"})
             /\ attrOut.EndTime = FirstMatch(attrIn.attrs, {"endtime", "end"})
        ELSE attrOut.Timestamp = FirstMatch(attrIn.attrs, {"timestamp", "time"})

\* what the decoder does: the last matching attribute wins
DecoderLastMatchWins ==
    (apc = "answered" /\ attrIn.by = "decoder") =>
        IF attrIn.elem = "status"
        THEN /\ attrOut.StartTime = LastMatch(attrIn.attrs, {"starttime", "start"})
             /\ attrOut.EndTime = LastMatch(attrIn.attrs, {"endtime", "end"})
        ELSE attrOut.Timestamp = LastMatch(attrIn.attrs, {"timestamp", "time"})

\* what readRobotMessageTimes does: "time" wins wherever it stands
FastReaderTimeWins ==
    (apc = "answered" /\ attrIn.by = "fast") =>
        attrOut.Timestamp =
            IF FirstMatch(attrIn.attrs, {"time"}) # ""
            THEN FirstMatch(attrIn.attrs, {"time"})
            ELSE FirstMatch(attrIn.attrs, {"timestamp"})

(***************************************************************************)
(* The directory walk of scanOnce (backend/store/store.go): scanDir on a   *)
(* tree with a symlinked directory. The real directories form a chain: the *)
(* directory at level d + 1 is the sub-directory "a" of the one at level   *)
(* d, the root being at level 0. A directory may hold a report "o.xml"     *)
(* that passes the probe, and one directory may hold a symlink "l" to any  *)
(* directory of the chain, an ancestor or itself included.                 *)
(***************************************************************************)
maxDepth == 3

\* the level of the deepest real directory
MaxReal == 4

RealDirs == 0..MaxReal

WalkLinks == {Nil} \cup [at : RealDirs, to : RealDirs]

WalkTrees == [reports : SUBSET RealDirs, link : WalkLinks]

\* the real directory a path of names below the root leads to, -1 if none
RECURSIVE WalkResolve(_, _, _)
WalkResolve(t, d, path) ==
    IF path = <<>> \/ d = -1 THEN d
    ELSE WalkResolve(t,
                     CASE Head(path) = "a" /\ d < MaxReal -> d + 1
                       [] Head(path) = "l" /\ t.link # Nil /\ t.link.at = d -> t.link.to
                       [] OTHER -> -1,
                     Tail(path))

\* the directories among the entries os.ReadDir returns for real directory
\* d, in its order (sorted by name): the sub-directory "a", and the symlink
\* "l", which os.Stat shows to be a directory
SubDirs(t, d) ==
    (IF d < MaxReal THEN <<"a">> ELSE <<>>)
        \o (IF t.link # Nil /\ t.link.at = d THEN <<"l">> ELSE <<>>)

\* scanDir's guard
TooDeepAtMax(depth) == depth >= maxDepth
TooDeep(depth) == depth > maxDepth

InitWalk ==
    /\ DiffIdle
    /\ ParseIdle
    /\ StatIdle
    /\ StoreIdle
    /\ PathIdle
    /\ GetIdle
    /\ FindIdle
    /\ RenameIdle
    /\ GoIdle
    /\ AttrIdle
    /\ walkFs \in WalkTrees
    /\ walkStack = <<>>
    /\ walkFound = {}
    /\ walkEntered = {}
    /\ wpc = "idle"

\* scanOnce: scanDir(s.dir, 0)
WalkBegin ==
    /\ wpc = "idle"
    /\ wpc' = "walk"
    /\ walkStack' = << [path |-> <<>>, depth |-> 0] >>
    /\ UNCHANGED <<walkFs, walkFound, walkEntered>>
    /\ UNCHANGED nonWalkVars

\* scanDir(absDir, depth) with depth > maxDepth: return
ScanDirReturn ==
    /\ wpc = "walk"
    /\ walkStack # <<>>
    /\ TooDeep(Head(walkStack).depth)
    /\ walkStack' = Tail(walkStack)
    /\ UNCHANGED <<walkFs, walkFound, walkEntered, wpc>>
    /\ UNCHANGED nonWalkVars

\* scanDir(absDir, depth): os.ReadDir and the loop over the entries; the
\* calls scanDir(absPath, depth + 1) are kept on the stack in the order the
\* loop makes them
ScanDir ==
    /\ wpc = "walk"
    /\ walkStack # <<>>
    /\ LET f == Head(walkStack)
           d == WalkResolve(walkFs, 0, f.path)
           subs == SubDirs(walkFs, d)
       IN  /\ ~TooDeep(f.depth)
           /\ walkEntered' = walkEntered \cup {f.path}
           /\ walkFound' = IF d \in walkFs.reports
                           THEN walkFound \cup {f.path} ELSE walkFound
           /\ walkStack' =
                [i \in 1..Len(subs) |->
                    [path |-> Append(f.path, subs[i]), depth |-> f.depth + 1]]
                \o Tail(walkStack)
    /\ UNCHANGED <<walkFs, wpc>>
    /\ UNCHANGED nonWalkVars

\* scanOnce: the walk has returned; s.runs = updated
WalkEnd ==
    /\ wpc = "walk"
    /\ walkStack = <<>>
    /\ wpc' = "done"
    /\ UNCHANGED <<walkFs, walkStack, walkFound, walkEntered>>
    /\ UNCHANGED nonWalkVars

NextWalk == WalkBegin \/ ScanDirReturn \/ ScanDir \/ WalkEnd

\* scanOnce runs in its own goroutine and no step of the walk waits
SpecWalk == InitWalk /\ [][NextWalk]_vars /\ WF_vars(NextWalk)

WalkDone == wpc = "done"

\* the real directories the cataloged reports lie in
FoundReal == { WalkResolve(walkFs, 0, p) : p \in walkFound }

\* C25 (as claimed): scanOnce terminates for every tree, the walk never
\* enters a directory that lies more than 3 levels below the root, no report
\* lying in a directory deeper than 3 levels below the root is cataloged, and
\* every report at 3 levels or less is
C25_DepthBounded ==
    /\ <>WalkDone
    /\ [](\A p \in walkEntered : WalkResolve(walkFs, 0, p) <= maxDepth)
    /\ [](WalkDone =>
            \A d \in walkFs.reports : d \in FoundReal <=> d <= maxDepth)

\* the paths a walk can take
WalkPaths == SeqsUpTo({"a", "l"}, maxDepth + 1)

\* C25 (amended): scanOnce terminates for every tree, the walk never enters
\* a directory by a path of more than 3 names below the root (a symlinked
\* directory counts as one name), and the reports cataloged are exactly
\* those of the folders that such a path of at most 3 names leads to, each
\* under every such path
C25_WalkDepthBounded ==
    /\ <>WalkDone
    /\ [](\A p \in walkEntered : Len(p) <= maxDepth)
    /\ [](WalkDone =>
            walkFound = { p \in WalkPaths :
                            /\ Len(p) <= maxDepth
                            /\ WalkResolve(walkFs, 0, p) \in walkFs.reports })

\* a finished walk of a tree whose symlink points back to an ancestor: the
\* link was followed, the report 3 names below the root is cataloged and the
\* one 4 levels below is not
C25_Witness ==
    /\ WalkDone
    /\ walkFs.link # Nil
    /\ walkFs.link.to < walkFs.link.at
    /\ Append([i \in 1..walkFs.link.at |-> "a"], "l") \in walkEntered
    /\ {3, 4} \subseteq walkFs.reports
    /\ <<"a", "a", "a">> \in walkFound
    /\ 4 \notin FoundReal

(***************************************************************************)
(* ParseRobotXMLBytesContext (backend/diff/parse.go): the caller, the      *)
(* goroutine that runs xml.Unmarshal, the two channels between them and    *)
(* the deadline of ctx.                                                    *)
(***************************************************************************)
\* the capacity of resultCh and of errCh
ChanCap == 1

\* bytes xml.Unmarshal rejects
Malformed == [malformed |-> TRUE]

GoDocs == FindTrees \cup {Malformed}

\* a send on channel ch can complete
SendReadyUnbuffered(ch) == goCaller = "select" /\ Len(ch) < ChanCap
SendReady(ch) == Len(ch) < ChanCap

InitGo ==
    /\ DiffIdle
    /\ ParseIdle
    /\ StatIdle
    /\ StoreIdle
    /\ PathIdle
    /\ GetIdle
    /\ FindIdle
    /\ RenameIdle
    /\ AttrIdle
    /\ WalkIdle
    /\ goData \in GoDocs
    /\ goCaller = "entry"
    /\ goDecoder = "none"
    /\ resultCh = <<>>
    /\ errCh = <<>>
    /\ ctxDone \in BOOLEAN
    /\ goRet = Nil

\* the deadline of ctx expires
CtxExpire ==
    /\ ~ctxDone
    /\ goCaller # "returned"
    /\ ctxDone' = TRUE
    /\ UNCHANGED <<goData, goCaller, goDecoder, resultCh, errCh, goRet>>
    /\ UNCHANGED nonGoVars

\* ctx.Err() on entry; make(chan) twice and the go statement
CallerEntry ==
    /\ goCaller = "entry"
    /\ IF ctxDone
       THEN /\ goCaller' = "returned"
            /\ goRet' = [robot |-> Nil, err |-> "deadline"]
            /\ UNCHANGED goDecoder
       ELSE /\ goCaller' = "select"
            /\ goDecoder' = "decoding"
            /\ UNCHANGED goRet
    /\ UNCHANGED <<goData, resultCh, errCh, ctxDone>>
    /\ UNCHANGED nonGoVars

\* select: case <-ctx.Done()
SelectDone ==
    /\ goCaller = "select"
    /\ ctxDone
    /\ goCaller' = "returned"
    /\ goRet' = [robot |-> Nil, err |-> "deadline"]
    /\ UNCHANGED <<goData, goDecoder, resultCh, errCh, ctxDone>>
    /\ UNCHANGED nonGoVars

\* select: case err := <-errCh
SelectErr ==
    /\ goCaller = "select"
    /\ errCh # <<>>
    /\ goCaller' = "returned"
    /\ goRet' = [robot |-> Nil, err |-> Head(errCh)]
    /\ errCh' = Tail(errCh)
    /\ UNCHANGED <<goData, goDecoder, resultCh, ctxDone>>
    /\ UNCHANGED nonGoVars

\* select: case robot := <-resultCh
SelectResult ==
    /\ goCaller = "select"
    /\ resultCh # <<>>
    /\ goCaller' = "returned"
    /\ goRet' = [robot |-> Head(resultCh), err |-> ""]
    /\ resultCh' = Tail(resultCh)
    /\ UNCHANGED <<goData, goDecoder, errCh, ctxDone>>
    /\ UNCHANGED nonGoVars

\* the goroutine: xml.Unmarshal(data, &robot) has returned
DecoderUnmarshal ==
    /\ goDecoder = "decoding"
    /\ goDecoder' = "sending"
    /\ UNCHANGED <<goData, goCaller, resultCh, errCh, ctxDone, goRet>>
    /\ UNCHANGED nonGoVars

\* the goroutine: errCh <- err and return, or resultCh <- &robot
DecoderSend ==
    /\ goDecoder = "sending"
    /\ IF goData = Malformed
       THEN /\ SendReady(errCh)
            /\ errCh' = Append(errCh, "parse")
            /\ UNCHANGED resultCh
       ELSE /\ SendReady(resultCh)
            /\ resultCh' = Append(resultCh, goData)
            /\ UNCHANGED errCh
    /\ goDecoder' = "done"
    /\ UNCHANGED <<goData, goCaller, ctxDone, goRet>>
    /\ UNCHANGED nonGoVars

NextGo ==
    \/ CtxExpire
    \/ CallerEntry
    \/ SelectDone
    \/ SelectErr
    \/ SelectResult
    \/ DecoderUnmarshal
    \/ DecoderSend

\* the Go scheduler runs a goroutine that can take a step; xml.Unmarshal of
\* a byte slice returns
SpecGo ==
    /\ InitGo
    /\ [][NextGo]_vars
    /\ WF_vars(DecoderUnmarshal)
    /\ WF_vars(DecoderSend)

\* the send the goroutine is about to make can complete
SendNeverBlocks ==
    goDecoder = "sending" =>
        IF goData = Malformed THEN SendReady(errCh) ELSE SendReady(resultCh)

\* the call returned the tree without error, or an error without tree; a
\* tree returned is the one the bytes decode to
ReturnsOneOfTwo ==
    goRet # Nil =>
        \/ goRet.err = "" /\ goRet.robot = goData /\ goData # Malformed
        \/ goRet.err \in {"deadline", "parse"} /\ goRet.robot = Nil

\* C29: the decoding goroutine of ParseRobotXMLBytesContext always
\* terminates, whether or not the caller has already returned on an expired
\* deadline: its single send on resultCh or errCh never blocks; and the
\* caller returns exactly one of (tree, nil) and (nil, error)
C29_DecoderTerminates ==
    /\ [](goDecoder = "decoding" => <>(goDecoder = "done"))
    /\ []SendNeverBlocks
    /\ []ReturnsOneOfTwo

\* the goroutine ended after the caller had returned on the deadline; its
\* tree stays in the channel
C29_Witness ==
    /\ goRet # Nil
    /\ goRet.err = "deadline"
    /\ goDecoder = "done"
    /\ resultCh = <<goData>>

\* ---- the hierarchy of BuildJSONData against the tests of the reports ----

\* the (suite path, test name) pairs of the JSON suites
JSONPairs(suites) ==
    LET flat == FlattenJSON(suites)
    IN  { <<flat[i].suite, flat[i].name>> : i \in 1..Len(flat) }

\* the case-folded (long name of the owning suite, test name) pairs of the
\* tests of a suite and of its sub-suites, long names built as addSuite does
RECURSIVE TestPairs(_, _)
TestPairs(suite, parent) ==
    LET longname == IF parent # <<>> THEN parent \o <<Dot>> \o suite.Name ELSE suite.Name
    IN  { <<ToLower(longname), ToLower(suite.Tests[i].Name)>> : i \in 1..Len(suite.Tests) }
        \cup UNION { TestPairs(suite.Suites[i], longname) : i \in 1..Len(suite.Suites) }

AddedPairs == UNION { TestPairs(added[i].Suite, <<>>) : i \in 1..Len(added) }

\* C28: the (suite path, test name) pairs of the BuildJSONData output are
\* exactly the case-folded (long name of the owning suite, test name) pairs
\* of the tests of the reports added: no test is missing, also when its name
\* holds "." or is the prefix of another item, and no suite is shown as a test
C28_HierarchyIsTheTests == dpc = "reported" => JSONPairs(json) = AddedPairs

\* the names of the tests and of the suites of a report
RECURSIVE SuiteLongNames(_, _)
SuiteLongNames(suite, parent) ==
    LET longname == IF parent # <<>> THEN parent \o <<Dot>> \o suite.Name ELSE suite.Name
    IN  {ToLower(longname)}
        \cup UNION { SuiteLongNames(suite.Suites[i], longname) : i \in 1..Len(suite.Suites) }

AddedSuites == UNION { SuiteLongNames(added[i].Suite, <<>>) : i \in 1..Len(added) }

\* no test name holds ".", no test is named like a suite, and every suite
\* has a test or a sub-suite with tests below it
PlainNames ==
    /\ \A p \in AddedPairs :
          /\ ~ContainsDot(p[2])
          /\ (p[1] \o <<Dot>> \o p[2]) \notin AddedSuites
    /\ \A s \in AddedSuites : \E p \in AddedPairs : p[1] = s \/ HasPrefix(p[1], s \o <<Dot>>)

\* for reports with such names the hierarchy is the tests
PlainHierarchyIsTheTests ==
    (dpc = "reported" /\ PlainNames) => JSONPairs(json) = AddedPairs
====
